---- MODULE Spec2Model ----
(***************************************************************************)
(* Protocol engine of the Aerospike MCP server: JSON-RPC decoding and      *)
(* dispatch (Server.handleMessage / routeMethod and the method handlers),  *)
(* the token-bucket rate limiter, the audit logger and the unary (stdio)   *)
(* transport loop.                                                         *)
(*                                                                         *)
(* Optional Go values (nil pointers, nil interfaces, omitted JSON fields)  *)
(* are sequences of length 0 or 1.  Texts built with fmt.Sprintf are       *)
(* sequences of their fragments.  Rate-limiter tokens are fixed point:     *)
(* one token is TokenUnit units, and one clock tick refills one unit.      *)
(***************************************************************************)
EXTENDS Integers, Sequences, FiniteSets, TLC

VARIABLES config, tools, rateLimiter, auditLogger, now, pc, line, last,
          sseClients, wsClients, threads, hist

vars == <<config, tools, rateLimiter, auditLogger, now, pc, line, last,
          sseClients, wsClients, threads, hist>>

None == <<>>
Some(v) == <<v>>

\* ------------------------------------------------------------------------
\* Bounds of the model
\* ------------------------------------------------------------------------
MaxTime == 2

\* ------------------------------------------------------------------------
\* Constants of the program
\* ------------------------------------------------------------------------
ParseError == -32700
InvalidRequest == -32600
MethodNotFound == -32601
InvalidParams == -32602
InternalError == -32603

\* Fixed-point denominator of the float64 token count; one tick of the
\* clock is the time in which refillRate produces 1/TokenUnit of a token.
TokenUnit == 2

Roles == {"read-only", "read-write", "admin"}

CanWrite(r) == r \in {"read-write", "admin"}
CanAdmin(r) == r = "admin"

SchemaTools == {"list_namespaces", "describe_namespace", "list_sets", "describe_set"}
ReadTools == {"get_record", "batch_get", "query_records", "scan_set"}
WriteTools == {"put_record", "delete_record", "batch_write", "operate"}
IndexTools == {"create_index", "drop_index", "truncate_set",
               "list_udfs", "register_udf", "remove_udf", "execute_udf"}
ClusterTools == {"cluster_info", "list_indexes", "node_stats"}

\* Mutant of NewRegistry: the write tools are registered for every role.
NewRegistry_WriteToolsForAll(r) ==
    SchemaTools \cup ReadTools \cup WriteTools
      \cup (IF CanAdmin(r) THEN IndexTools ELSE {})
      \cup ClusterTools

\* tools.NewRegistry: the handlers registered for a role.
NewRegistry(r) ==
    SchemaTools \cup ReadTools
      \cup (IF CanWrite(r) THEN WriteTools ELSE {})
      \cup (IF CanAdmin(r) THEN IndexTools ELSE {})
      \cup ClusterTools

\* Mutant of List: the write tools are listed for every role.
List_WriteToolsForAll(r) ==
    <<"list_namespaces", "describe_namespace", "list_sets", "describe_set",
      "get_record", "batch_get", "query_records", "scan_set",
      "cluster_info", "list_indexes">>
      \o <<"put_record", "delete_record", "batch_write", "operate">>
      \o (IF CanAdmin(r)
          THEN <<"create_index", "drop_index", "truncate_set",
                 "list_udfs", "register_udf", "remove_udf", "execute_udf">>
          ELSE <<>>)
      \o <<"node_stats">>

\* tools.Registry.List: the names of the definitions, in the order of the
\* slice it returns.
List(r) ==
    <<"list_namespaces", "describe_namespace", "list_sets", "describe_set",
      "get_record", "batch_get", "query_records", "scan_set",
      "cluster_info", "list_indexes">>
      \o (IF CanWrite(r)
          THEN <<"put_record", "delete_record", "batch_write", "operate">>
          ELSE <<>>)
      \o (IF CanAdmin(r)
          THEN <<"create_index", "drop_index", "truncate_set",
                 "list_udfs", "register_udf", "remove_udf", "execute_udf">>
          ELSE <<>>)
      \o <<"node_stats">>

\* Mutant of isWriteOperation: operate is missing from the table.
isWriteOperation_MissingOperate(op) ==
    op \in {"put_record", "delete_record", "batch_write"}

isWriteOperation(op) ==
    op \in {"put_record", "delete_record", "batch_write", "operate"}

\* Mutant of isAdminOperation: remove_udf is missing from the table.
isAdminOperation_MissingRemoveUdf(op) ==
    op \in {"create_index", "drop_index", "truncate_set", "register_udf"}

isAdminOperation(op) ==
    op \in {"create_index", "drop_index", "truncate_set", "register_udf", "remove_udf"}

errorString(err) == IF err = None THEN None ELSE err[1]

\* ------------------------------------------------------------------------
\* Rate limiter (package audit)
\* ------------------------------------------------------------------------
DefaultBurstSize == 200

\* Mutant of NewRateLimiter: the bucket starts one token short.
NewRateLimiter_OneShort(cfg, t) ==
    LET maxTokens == IF cfg.BurstSize <= 0 THEN DefaultBurstSize ELSE cfg.BurstSize
    IN  [tokens     |-> (maxTokens - 1) * TokenUnit,
         maxTokens  |-> maxTokens * TokenUnit,
         lastRefill |-> t,
         enabled    |-> cfg.Enabled]

\* NewRateLimiter: a full bucket; a non-positive burst size means 200.
NewRateLimiter(cfg, t) ==
    LET maxTokens == IF cfg.BurstSize <= 0 THEN DefaultBurstSize ELSE cfg.BurstSize
    IN  [tokens     |-> maxTokens * TokenUnit,
         maxTokens  |-> maxTokens * TokenUnit,
         lastRefill |-> t,
         enabled    |-> cfg.Enabled]

\* refill: add the tokens of the elapsed time, clamped to the capacity.
refill(r, t) ==
    LET elapsed == t - r.lastRefill
        tokens  == r.tokens + elapsed
    IN  [r EXCEPT !.lastRefill = t,
                  !.tokens = IF tokens > r.maxTokens THEN r.maxTokens ELSE tokens]

\* Mutant of Allow: the test admits a bucket that holds no whole token.
Allow_AdmitsWithoutToken(r, t) ==
    IF ~r.enabled
    THEN [ok |-> TRUE, rl |-> r]
    ELSE LET r2 == refill(r, t)
         IN  IF r2.tokens >= 0
             THEN [ok |-> TRUE, rl |-> [r2 EXCEPT !.tokens = @ - TokenUnit]]
             ELSE [ok |-> FALSE, rl |-> r2]

\* Allow: [ok, rl] is the answer and the limiter afterwards.
Allow(r, t) ==
    IF ~r.enabled
    THEN [ok |-> TRUE, rl |-> r]
    ELSE LET r2 == refill(r, t)
         IN  IF r2.tokens >= TokenUnit
             THEN [ok |-> TRUE, rl |-> [r2 EXCEPT !.tokens = @ - TokenUnit]]
             ELSE [ok |-> FALSE, rl |-> r2]

\* Mutant of AllowN: the disabled limiter is treated like an enabled one.
AllowN_IgnoresDisabled(r, n, t) ==
    LET r2 == refill(r, t)
        needed == n * TokenUnit
    IN  IF r2.tokens >= needed
        THEN [ok |-> TRUE, rl |-> [r2 EXCEPT !.tokens = @ - needed]]
        ELSE [ok |-> FALSE, rl |-> r2]

\* Mutant of AllowN: a refused call takes the tokens that are there.
AllowN_TakesWhatIsThere(r, n, t) ==
    IF ~r.enabled
    THEN [ok |-> TRUE, rl |-> r]
    ELSE LET r2 == refill(r, t)
             needed == n * TokenUnit
         IN  IF r2.tokens >= needed
             THEN [ok |-> TRUE, rl |-> [r2 EXCEPT !.tokens = @ - needed]]
             ELSE [ok |-> FALSE, rl |-> [r2 EXCEPT !.tokens = 0]]

\* AllowN: n is any int; a negative n passes the test and adds to the count.
AllowN(r, n, t) ==
    IF ~r.enabled
    THEN [ok |-> TRUE, rl |-> r]
    ELSE LET r2 == refill(r, t)
             needed == n * TokenUnit
         IN  IF r2.tokens >= needed
             THEN [ok |-> TRUE, rl |-> [r2 EXCEPT !.tokens = @ - needed]]
             ELSE [ok |-> FALSE, rl |-> r2]

\* The tries of Wait before it gives up.
MaxWaitTries == 100

\* Wait from try i on: Allow, and after a refusal a sleep of nap ticks;
\* [ok, rl, at] is the answer (nil error), the limiter afterwards and the
\* time of the last try.  With sleeps shorter than a tick every later try
\* finds the bucket of the first refusal, so all of them are refused.
RECURSIVE WaitFrom(_, _, _, _)
WaitFrom(r, t, i, nap) ==
    IF i >= MaxWaitTries
    THEN [ok |-> FALSE, rl |-> r, at |-> t]
    ELSE LET a == Allow(r, t)
         IN  IF a.ok
             THEN [ok |-> TRUE, rl |-> a.rl, at |-> t]
             ELSE IF nap = 0
             THEN [ok |-> FALSE, rl |-> a.rl, at |-> t]
             ELSE WaitFrom(a.rl, t + nap, i + 1, nap)

Wait(r, t, nap) ==
    IF ~r.enabled
    THEN [ok |-> TRUE, rl |-> r, at |-> t]
    ELSE WaitFrom(r, t, 0, nap)

\* GetStats: the refill pass, then the figures.
GetStats(r, t) ==
    LET r2 == refill(r, t)
    IN  [stats |-> [enabled |-> r2.enabled, available_tokens |-> r2.tokens,
                    max_tokens |-> r2.maxTokens],
         rl |-> r2]

\* ------------------------------------------------------------------------
\* Audit logger (package audit)
\* ------------------------------------------------------------------------
DefaultBufferSize == 100

Event(level, category, operation, success, error) ==
    [Timestamp |-> None, Level |-> level, Category |-> category,
     Operation |-> operation, Success |-> success, Error |-> error]

\* NewLogger: no logger when the file of the sink cannot be opened.  writer
\* is "ok" while the sink takes what is written and "failing" when its
\* Write returns an error.
NewLogger(cfg) ==
    IF ~cfg.SinkOpens
    THEN None
    ELSE Some([writer  |-> "ok",
               enabled |-> cfg.Enabled,
               buffer  |-> <<>>,
               bufSize |-> IF cfg.BufferSize <= 0 THEN DefaultBufferSize
                           ELSE cfg.BufferSize])

\* An event with details; json.Marshal fails on details that hold a value
\* without a JSON form (a channel, a function, a NaN).
WithDetails(event, details) == event @@ [Details |-> details]

\* json.Marshal(event) succeeds.
Marshals(event) == "Details" \notin DOMAIN event \/ event.Details # "channel"

\* The event with the time of the call when it carries none.
Stamped(event, t) ==
    IF event.Timestamp = None THEN [event EXCEPT !.Timestamp = Some(t)] ELSE event

\* Mutant of Record: the event is buffered only when the write succeeded.
Record_ReturnsOnWriteError(l, stamped) ==
    IF l.writer # "ok"
    THEN [l |-> l, written |-> <<>>, printed |-> <<>>]
    ELSE [l |-> [l EXCEPT !.buffer = IF Len(l.buffer) + 1 >= l.bufSize
                                     THEN Tail(Append(l.buffer, stamped))
                                     ELSE Append(l.buffer, stamped)],
          written |-> <<stamped>>,
          printed |-> <<>>]

\* Log after Marshal succeeded: the record goes to the writer, whose error
\* is not looked at, and the event to the buffer.
Record(l, stamped) ==
    [l |-> [l EXCEPT !.buffer = IF Len(l.buffer) + 1 >= l.bufSize
                                THEN Tail(Append(l.buffer, stamped))
                                ELSE Append(l.buffer, stamped)],
     written |-> IF l.writer = "ok" THEN <<stamped>> ELSE <<>>,
     printed |-> <<>>]

\* Log from the lock on: Marshal, and after an error the diagnostic.
Locked_Log(l, stamped) ==
    IF ~Marshals(stamped)
    THEN [l |-> l, written |-> <<>>, printed |-> <<"Audit log marshal error">>]
    ELSE Record(l, stamped)

\* Mutant of Log: the enabled flag is not looked at.
Log_IgnoresDisabled(l, event, t) == Locked_Log(l, Stamped(event, t))

\* Logger.Log: [l, written, printed] is the logger afterwards, the records
\* the sink took and the diagnostics printed.
Log(l, event, t) ==
    IF ~l.enabled
    THEN [l |-> l, written |-> <<>>, printed |-> <<>>]
    ELSE Locked_Log(l, Stamped(event, t))

\* Logger.GetRecentEvents: the last count events of the buffer, all of
\* them when there are fewer; a negative count panics in make.
GetRecentEvents(l, count) ==
    LET len == Len(l.buffer)
        n == IF count > len THEN len ELSE count
    IN  IF n < 0
        THEN [panic |-> TRUE, events |-> <<>>]
        ELSE [panic |-> FALSE, events |-> SubSeq(l.buffer, len - n + 1, len)]

\* ------------------------------------------------------------------------
\* Input validator (audit.Validator)
\* ------------------------------------------------------------------------
\* A text is a sequence of characters.  The characters of the model: one
\* letter, the underscore and the hyphen stand for the class [a-zA-Z0-9_-],
\* "@" for an ASCII character outside it, and "e'" for a letter outside
\* ASCII, which takes two bytes in UTF-8.
IdentifierChars == {"a", "_", "-"}
Chars == IdentifierChars \cup {"@", "e'"}

\* The bytes of one character.
Width(c) == IF c = "e'" THEN 2 ELSE 1

\* len(s): the length of a Go string is its length in bytes.
RECURSIVE len(_)
len(s) == IF s = <<>> THEN 0 ELSE Width(Head(s)) + len(Tail(s))

\* isValidIdentifier: the text matches ^[a-zA-Z0-9_-]+$.
isValidIdentifier(s) ==
    /\ s # <<>>
    /\ \A i \in 1..Len(s) : s[i] \in IdentifierChars

ValidationError(field, message) == Some([Field |-> field, Message |-> message])

\* DefaultValidatorConfig, the configuration NewServer builds its validator
\* from.
DefaultValidatorConfig ==
    [MaxKeyLength |-> 1024, MaxBinNameLength |-> 15, MaxNamespaceLength |-> 31,
     MaxSetNameLength |-> 63, MaxBatchSize |-> 5000]

\* NewValidator: the limits are copied from the configuration.
NewValidator(cfg) ==
    [maxKeyLength |-> cfg.MaxKeyLength, maxBinNameLength |-> cfg.MaxBinNameLength,
     maxNamespaceLength |-> cfg.MaxNamespaceLength,
     maxSetNameLength |-> cfg.MaxSetNameLength, maxBatchSize |-> cfg.MaxBatchSize]

ValidateNamespace(v, namespace) ==
    IF namespace = <<>>
    THEN ValidationError("namespace", "cannot be empty")
    ELSE IF len(namespace) > v.maxNamespaceLength
    THEN ValidationError("namespace", "exceeds maximum length")
    ELSE IF ~isValidIdentifier(namespace)
    THEN ValidationError("namespace", "contains invalid characters")
    ELSE None

ValidateSetName(v, setName) ==
    IF setName = <<>>
    THEN None
    ELSE IF len(setName) > v.maxSetNameLength
    THEN ValidationError("set_name", "exceeds maximum length")
    ELSE IF ~isValidIdentifier(setName)
    THEN ValidationError("set_name", "contains invalid characters")
    ELSE None

\* Every text of the model is valid UTF-8, so the last test of ValidateKey
\* never fails here.
ValidateKey(v, key) ==
    IF key = <<>>
    THEN ValidationError("key", "cannot be empty")
    ELSE IF len(key) > v.maxKeyLength
    THEN ValidationError("key", "exceeds maximum length")
    ELSE None

\* Mutant of ValidateBinName: the length test is >= instead of >.
ValidateBinName_RejectsMaximum(v, binName) ==
    IF binName = <<>>
    THEN ValidationError("bin_name", "cannot be empty")
    ELSE IF len(binName) >= v.maxBinNameLength
    THEN ValidationError("bin_name", "exceeds maximum length")
    ELSE IF ~isValidIdentifier(binName)
    THEN ValidationError("bin_name", "contains invalid characters")
    ELSE None

ValidateBinName(v, binName) ==
    IF binName = <<>>
    THEN ValidationError("bin_name", "cannot be empty")
    ELSE IF len(binName) > v.maxBinNameLength
    THEN ValidationError("bin_name", "exceeds maximum length")
    ELSE IF ~isValidIdentifier(binName)
    THEN ValidationError("bin_name", "contains invalid characters")
    ELSE None

ValidateBatchSize(v, size) ==
    IF size <= 0
    THEN ValidationError("batch_size", "must be positive")
    ELSE IF size > v.maxBatchSize
    THEN ValidationError("batch_size", "exceeds maximum")
    ELSE None

\* ------------------------------------------------------------------------
\* Tool registry and resource registry (the downstream operations)
\* ------------------------------------------------------------------------
\* Outcomes of a backing-store operation, chosen by the environment.
Outcomes == {"ok", "fail"}

\* One request of a batch as Client.BatchWrite meets it: its key text, its
\* operation, whether as.NewKey fails on it and whether the store fails on
\* the write.
BatchWriteRequest(key, operation, keyErr, storeErr) ==
    [Key |-> key, Operation |-> operation, keyErr |-> keyErr, storeErr |-> storeErr]

BatchWriteResult(key, success, error) == [Key |-> key, Success |-> success, Error |-> error]

\* One iteration of the loop of BatchWrite: the result of the request and
\* the operation of the store it made, if any.
BatchStep(i, req) ==
    IF req.keyErr
    THEN [result |-> BatchWriteResult(req.Key, FALSE, "creating key"), ops |-> <<>>]
    ELSE IF req.Operation \in {"put", ""}
    THEN [result |-> BatchWriteResult(req.Key, ~req.storeErr,
                                      IF req.storeErr THEN "put" ELSE ""),
          ops |-> <<[at |-> i, op |-> "Put"]>>]
    ELSE IF req.Operation = "delete"
    THEN [result |-> BatchWriteResult(req.Key, ~req.storeErr,
                                      IF req.storeErr THEN "delete" ELSE ""),
          ops |-> <<[at |-> i, op |-> "Delete"]>>]
    ELSE [result |-> BatchWriteResult(req.Key, FALSE, "unknown operation"), ops |-> <<>>]

\* Mutant of BatchLoop: the loop ends at the first request that fails.
RECURSIVE BatchLoop_StopsAtFailure(_, _, _, _)
BatchLoop_StopsAtFailure(requests, i, results, ops) ==
    IF i > Len(requests)
    THEN [results |-> results, ops |-> ops]
    ELSE IF ~BatchStep(i, requests[i]).result.Success
    THEN [results |-> results \o <<BatchStep(i, requests[i]).result>>, ops |-> ops]
    ELSE BatchLoop_StopsAtFailure(requests, i + 1,
                                  results \o <<BatchStep(i, requests[i]).result>>,
                                  ops \o BatchStep(i, requests[i]).ops)

\* The loop of BatchWrite from request i on; results and ops are those of
\* the requests before i.
RECURSIVE BatchLoop(_, _, _, _)
BatchLoop(requests, i, results, ops) ==
    IF i > Len(requests)
    THEN [results |-> results, ops |-> ops]
    ELSE BatchLoop(requests, i + 1,
                   results \o <<BatchStep(i, requests[i]).result>>,
                   ops \o BatchStep(i, requests[i]).ops)

\* The return of a batch whose loop ended as done.
BatchDone(done) == [results |-> Some(done.results), err |-> None, ops |-> done.ops]

\* Client.BatchWrite under a role and a configured MaxBatchSize.
BatchWrite(role, maxBatchSize, requests) ==
    IF ~CanWrite(role)
    THEN [results |-> None, err |-> Some(<<"write operations not permitted for role: ", role>>),
          ops |-> <<>>]
    ELSE IF Len(requests) > maxBatchSize
    THEN [results |-> None, err |-> Some(<<"batch size exceeds maximum">>), ops |-> <<>>]
    ELSE BatchDone(BatchLoop(requests, 1, <<>>, <<>>))

\* The arguments of a tools/call as the handlers decode them: shape is
\* "object" when json.Unmarshal into the handler's struct succeeds and "bad"
\* otherwise (an absent field, a number, a field of the wrong type); a field
\* the object does not carry has the zero value of its Go type.  Texts are
\* sequences of characters.
Arguments(shape, namespace, set_name, key, confirm, confirm_destructive) ==
    [shape |-> shape, namespace |-> namespace, set_name |-> set_name, key |-> key,
     confirm |-> confirm, confirm_destructive |-> confirm_destructive]

\* Well-formed arguments that confirm everything.
SomeArguments == Arguments("object", <<"a">>, <<>>, <<"a">>, TRUE, TRUE)

\* The handlers that never look at their arguments.
IgnoresArguments(name) == name \in {"list_namespaces", "cluster_info", "list_udfs"}

\* The check the handler makes between decoding and the client call:
\* None, or the text of the error.
Unconfirmed(name, args) ==
    CASE name \in {"drop_index", "remove_udf"} /\ ~args.confirm ->
             Some(<<name, " requires confirm=true">>)
      [] name = "truncate_set" /\ (~args.confirm \/ ~args.confirm_destructive) ->
             Some(<<name, " requires both confirm=true and confirm_destructive=true">>)
      [] OTHER -> None

\* A tool handler after decoding: refusal is the outcome of its own check;
\* without one the client is called.  ops lists the operations of the
\* backing store the handler invoked.
Invoke(name, args, outcome, refusal) ==
    IF refusal # None
    THEN [value |-> None, err |-> refusal, ops |-> <<>>]
    ELSE IF outcome = "fail"
    THEN [value |-> None, err |-> Some(<<"operation failed: ", name>>),
          ops |-> <<[op |-> name, args |-> args]>>]
    ELSE [value |-> Some(<<"result of ", name>>), err |-> None,
          ops |-> <<[op |-> name, args |-> args]>>]

\* Mutant of Handle: truncate_set is content with confirm alone.
Handle_OneConfirmation(name, args, outcome) ==
    IF ~IgnoresArguments(name) /\ args.shape # "object"
    THEN [value |-> None, err |-> Some(<<"invalid arguments: ", name>>), ops |-> <<>>]
    ELSE Invoke(name, args, outcome,
                IF args.confirm THEN None ELSE Unconfirmed(name, args))

\* A tool handler: it decodes its arguments, makes its own check and calls
\* the client.
Handle(name, args, outcome) ==
    IF ~IgnoresArguments(name) /\ args.shape # "object"
    THEN [value |-> None, err |-> Some(<<"invalid arguments: ", name>>), ops |-> <<>>]
    ELSE Invoke(name, args, outcome, Unconfirmed(name, args))

\* What Call returns when the handler h of the tool ran.
Ran(name, h) == [value |-> h.value, err |-> h.err, runs |-> <<name>>, ops |-> h.ops]

\* tools.Registry.Call: name lookup, then the handler.  runs lists the
\* handlers that ran.
Call(registry, name, args, outcome) ==
    IF name \notin registry
    THEN [value |-> None, err |-> Some(<<"unknown tool: ", name>>), runs |-> <<>>,
          ops |-> <<>>]
    ELSE Ran(name, Handle(name, args, outcome))

\* A URI is [scheme, head, rest]: the text scheme ++ head ++ "/" ++ rest,
\* without the slash when rest is empty.
URI(scheme, head, rest) == [scheme |-> scheme, head |-> head, rest |-> rest]
UriText(uri) == <<uri.scheme, uri.head, uri.rest>>
HasPrefix(uri, dir) == uri.head = dir /\ uri.rest # ""
PathIs(uri, head, rest) == uri.head = head /\ uri.rest = rest

\* resources.Registry.Read: reads lists the backing-store reads made.
Read(uri, outcome) ==
    LET known == \/ PathIs(uri, "cluster", "info")
                 \/ HasPrefix(uri, "ns")
                 \/ PathIs(uri, "udfs", "")
                 \/ HasPrefix(uri, "schema")
    IN  IF uri.scheme # "aerospike://"
        THEN [content |-> None, reads |-> <<>>,
              err |-> Some(<<"invalid URI scheme: ">> \o UriText(uri))]
        ELSE IF ~known
        THEN [content |-> None, reads |-> <<>>,
              err |-> Some(<<"unknown resource: ">> \o UriText(uri))]
        ELSE IF outcome = "fail"
        THEN [content |-> None, reads |-> <<uri>>,
              err |-> Some(<<"read failed: ">> \o UriText(uri))]
        ELSE [content |-> Some(<<"content of ">> \o UriText(uri)), reads |-> <<uri>>,
              err |-> None]

\* ------------------------------------------------------------------------
\* Method handlers (package mcp).  A handler yields its result or its
\* protocol error, the limiter and the logger afterwards, and what it did:
\* the records written to the audit sink (logged), the names given to the
\* tool registry (calls), the tool handlers that ran (runs), the resource
\* reads made (reads), the number of times the limiter was consulted
\* (allows) and the error of the downstream operation (downErr).
\* ------------------------------------------------------------------------
MCPVersion == "2024-11-05"
ServerName == "aerospike-mcp-server"
ServerVersion == "0.1.0"

Error(code, message, data) == [code |-> code, message |-> message, data |-> data]

Out(result, error, rl, logger, logged, calls, runs, reads, allows, downErr) ==
    [result |-> result, error |-> error, rl |-> rl, logger |-> logger,
     logged |-> logged, calls |-> calls, runs |-> runs, reads |-> reads,
     allows |-> allows, downErr |-> downErr]

\* A handler that touches neither limiter nor logger nor downstream.
Pure(s, result, error) ==
    Out(result, error, s.rateLimiter, s.auditLogger, <<>>, <<>>, <<>>, <<>>, 0, None)

handleInitialize(s, params) ==
    IF params.shape = "bad"
    THEN Pure(s, None, Some(Error(InvalidParams, "Invalid params", "unmarshal error")))
    ELSE Pure(s, Some([type |-> "InitializeResult",
                       protocolVersion |-> MCPVersion,
                       serverInfo |-> <<ServerName, ServerVersion>>]), None)

handleToolsList(s) ==
    Pure(s, Some([type |-> "ToolsListResult", tools |-> s.tools]), None)

ToolsCallResult(text, isError) ==
    [type |-> "ToolsCallResult",
     content |-> <<[type |-> "text", text |-> text]>>,
     isError |-> isError]

RateLimitText == <<"Error: rate limit exceeded, please try again later">>

\* s.auditLogger.Log behind the nil check of the caller.
AuditLog(logger, event, t) ==
    IF logger = None
    THEN [logger |-> None, written |-> <<>>]
    ELSE LET r == Log(logger[1], event, t)
         IN  [logger |-> Some(r.l), written |-> r.written]

\* handleToolsCall, the limiter said no: a warning is audited and the call
\* ends with a tool-level error; rl is the limiter after Allow.
rateLimitExceeded(s, name, rl) ==
    LET w == AuditLog(s.auditLogger,
                      Event("WARNING", "WRITE", name, FALSE,
                            Some(<<"rate limit exceeded">>)), s.now)
    IN  Out(Some(ToolsCallResult(RateLimitText, TRUE)), None,
            rl, w.logger, w.written, <<>>, <<>>, <<>>, 1, None)

\* The audit event of a call that returned c.
CallEvent(name, c) ==
    Event("AUDIT",
          IF isAdminOperation(name) THEN "ADMIN"
          ELSE IF isWriteOperation(name) THEN "WRITE" ELSE "READ",
          name, c.err = None, errorString(c.err))

\* handleToolsCall after the call returned c and the event was written as w:
\* the outcome is wrapped as the result.
Wrapped(name, rl, allows, c, w) ==
    Out(Some(IF c.err # None
             THEN ToolsCallResult(<<"Error: ">> \o c.err[1], TRUE)
             ELSE ToolsCallResult(c.value[1], FALSE)),
        None, rl, w.logger, w.written, <<name>>, c.runs, <<>>, allows, c.err)

\* As Wrapped, but a failed call is answered with a protocol error.
Wrapped_ProtocolError(name, rl, allows, c, w) ==
    IF c.err # None
    THEN Out(None, Some(Error(InternalError, "Tool call failed", c.err[1])),
             rl, w.logger, w.written, <<name>>, c.runs, <<>>, allows, c.err)
    ELSE Out(Some(ToolsCallResult(c.value[1], FALSE)), None, rl, w.logger,
             w.written, <<name>>, c.runs, <<>>, allows, c.err)

\* handleToolsCall after the call returned c: the outcome is audited.
Audited(s, name, rl, allows, c) ==
    Wrapped(name, rl, allows, c, AuditLog(s.auditLogger, CallEvent(name, c), s.now))

Audited_ProtocolError(s, name, rl, allows, c) ==
    Wrapped_ProtocolError(name, rl, allows, c,
                          AuditLog(s.auditLogger, CallEvent(name, c), s.now))

\* Mutant of callTool: a failed call is answered with a protocol error.
callTool_ProtocolError(s, name, args, rl, allows, outcome) ==
    Audited_ProtocolError(s, name, rl, allows, Call(s.tools, name, args, outcome))

\* handleToolsCall, the call is admitted: the tool is called, the outcome
\* audited and wrapped as the result; allows counts the Allow before it.
callTool(s, name, args, rl, allows, outcome) ==
    Audited(s, name, rl, allows, Call(s.tools, name, args, outcome))

\* Mutant of handleToolsCall: the return after the rate-limit warning is
\* missing, so a denied call goes on to the tool.
handleToolsCall_FallsThrough(s, params, outcome) ==
    IF params.shape # "object"
    THEN Pure(s, None, Some(Error(InvalidParams, "Invalid params", "unmarshal error")))
    ELSE LET name == params.name
         IN  IF isWriteOperation(name)
             THEN LET a == Allow(s.rateLimiter, s.now)
                  IN  IF ~a.ok
                      THEN LET d == rateLimitExceeded(s, name, a.rl)
                               o == callTool([s EXCEPT !.auditLogger = d.logger],
                                             name, params.arguments, a.rl, 1, outcome)
                           IN  [o EXCEPT !.logged = d.logged \o @]
                      ELSE callTool(s, name, params.arguments, a.rl, 1, outcome)
             ELSE callTool(s, name, params.arguments, s.rateLimiter, 0, outcome)

\* Mutant of handleToolsCall: the error of Unmarshal is not looked at, and
\* the call goes on with the zero value of the parameters.
handleToolsCall_IgnoresUnmarshalError(s, params, outcome) ==
    LET name == IF params.shape # "object" THEN "" ELSE params.name
    IN  IF isWriteOperation(name)
        THEN LET a == Allow(s.rateLimiter, s.now)
             IN  IF ~a.ok
                 THEN rateLimitExceeded(s, name, a.rl)
                 ELSE callTool(s, name, params.arguments, a.rl, 1, outcome)
        ELSE callTool(s, name, params.arguments, s.rateLimiter, 0, outcome)

handleToolsCall(s, params, outcome) ==
    IF params.shape # "object"
    THEN Pure(s, None, Some(Error(InvalidParams, "Invalid params", "unmarshal error")))
    ELSE LET name == params.name
         IN  IF isWriteOperation(name)
             THEN LET a == Allow(s.rateLimiter, s.now)
                  IN  IF ~a.ok
                      THEN rateLimitExceeded(s, name, a.rl)
                      ELSE callTool(s, name, params.arguments, a.rl, 1, outcome)
             ELSE callTool(s, name, params.arguments, s.rateLimiter, 0, outcome)

handleResourcesList(s) ==
    Pure(s, Some([type |-> "ResourcesListResult"]), None)

handleResourcesRead(s, params, outcome) ==
    IF params.shape # "object"
    THEN Pure(s, None, Some(Error(InvalidParams, "Invalid params", "unmarshal error")))
    ELSE LET r == Read(params.uri, outcome)
         IN  IF r.err # None
             THEN Out(None, Some(Error(InternalError, "Resource read failed", r.err[1])),
                      s.rateLimiter, s.auditLogger, <<>>, <<>>, <<>>, r.reads, 0, r.err)
             ELSE Out(Some([type |-> "ResourcesReadResult",
                            contents |-> <<[uri |-> params.uri, text |-> r.content[1]]>>]),
                      None, s.rateLimiter, s.auditLogger, <<>>, <<>>, <<>>, r.reads, 0, None)

handlePromptsList(s) ==
    Pure(s, Some([type |-> "PromptsListResult", prompts |-> <<>>]), None)

routeMethod(s, method, params, outcome) ==
    CASE method = "initialize"     -> handleInitialize(s, params)
      [] method = "initialized"    -> Pure(s, None, None)
      [] method = "shutdown"       -> Pure(s, None, None)
      [] method = "tools/list"     -> handleToolsList(s)
      [] method = "tools/call"     -> handleToolsCall(s, params, outcome)
      [] method = "resources/list" -> handleResourcesList(s)
      [] method = "resources/read" -> handleResourcesRead(s, params, outcome)
      [] method = "prompts/list"   -> handlePromptsList(s)
      [] OTHER -> Pure(s, None, Some(Error(MethodNotFound, "Method not found", method)))

\* ------------------------------------------------------------------------
\* Messages on the wire
\* ------------------------------------------------------------------------
\* The JSON text of a message, by its shape: kind is "garbage" (no JSON),
\* "array" (JSON, no object), "null" or "object"; of an object, jsonrpc is
\* "absent", a string, or "#number" (a JSON number in the field); id is
\* absent, null or a number; params is absent, of the wrong JSON type
\* ("bad") or an object with the fields name and uri.
NoParams == [shape |-> "absent", name |-> "", uri |-> URI("", "", ""),
             arguments |-> SomeArguments]
BadParams == [NoParams EXCEPT !.shape = "bad"]
CallParamsWith(name, args) ==
    [NoParams EXCEPT !.shape = "object", !.name = name, !.arguments = args]
CallParams(name) == CallParamsWith(name, SomeArguments)
ReadParams(uri) == [NoParams EXCEPT !.shape = "object", !.uri = uri]

NoIdField == [t |-> "absent", v |-> 0]
NullIdField == [t |-> "null", v |-> 0]
IdField(n) == [t |-> "number", v |-> n]

Raw(kind, jsonrpc, id, method, params) ==
    [kind |-> kind, jsonrpc |-> jsonrpc, id |-> id, method |-> method,
     params |-> params]

Object(jsonrpc, id, method, params) == Raw("object", jsonrpc, id, method, params)

\* Mutant of Decode: a JSON value that is no object is taken as an empty
\* request instead of an error.
Decode_AcceptsNonObject(raw) ==
    CASE raw.kind = "garbage" -> [err |-> TRUE, req |-> None]
      [] raw.kind \in {"null", "array"} ->
            [err |-> FALSE,
             req |-> Some([JSONRPC |-> "", ID |-> None, Method |-> "",
                           Params |-> NoParams])]
      [] OTHER ->
            IF raw.jsonrpc = "#number"
            THEN [err |-> TRUE, req |-> None]
            ELSE [err |-> FALSE,
                  req |-> Some([JSONRPC |-> IF raw.jsonrpc = "absent" THEN ""
                                            ELSE raw.jsonrpc,
                                ID      |-> IF raw.id.t = "number"
                                            THEN Some(raw.id.v) ELSE None,
                                Method  |-> raw.method,
                                Params  |-> raw.params])]

\* json.Unmarshal into Request: a syntax error or a value of the wrong JSON
\* type is an error; an absent field leaves the zero value; null leaves the
\* whole Request zero; a null id is the nil interface, like an absent one.
Decode(raw) ==
    CASE raw.kind \in {"garbage", "array"} -> [err |-> TRUE, req |-> None]
      [] raw.kind = "null" ->
            [err |-> FALSE,
             req |-> Some([JSONRPC |-> "", ID |-> None, Method |-> "",
                           Params |-> NoParams])]
      [] OTHER ->
            IF raw.jsonrpc = "#number"
            THEN [err |-> TRUE, req |-> None]
            ELSE [err |-> FALSE,
                  req |-> Some([JSONRPC |-> IF raw.jsonrpc = "absent" THEN ""
                                            ELSE raw.jsonrpc,
                                ID      |-> IF raw.id.t = "number"
                                            THEN Some(raw.id.v) ELSE None,
                                Method  |-> raw.method,
                                Params  |-> raw.params])]

\* Mutant of Response: the id of the request is not copied.
Response_DropsId(id, result, error) ==
    [JSONRPC |-> "2.0", ID |-> None, Result |-> result, Error |-> error]

Response(id, result, error) ==
    [JSONRPC |-> "2.0", ID |-> id, Result |-> result, Error |-> error]

\* json.Marshal of a Response: the fields in order, the empty ones of id,
\* result and error omitted.
Marshal(resp) ==
    <<<<"jsonrpc", resp.JSONRPC>>>>
      \o (IF resp.ID = None THEN <<>> ELSE <<<<"id", resp.ID[1]>>>>)
      \o (IF resp.Result = None THEN <<>> ELSE <<<<"result", resp.Result[1]>>>>)
      \o (IF resp.Error = None THEN <<>> ELSE <<<<"error", resp.Error[1]>>>>)

\* ------------------------------------------------------------------------
\* Server.handleMessage: the response (never nil) with what routing did.
\* ------------------------------------------------------------------------
Handled(resp, routed, o) ==
    [resp |-> resp, routed |-> routed, rl |-> o.rl, logger |-> o.logger,
     logged |-> o.logged, calls |-> o.calls, runs |-> o.runs,
     reads |-> o.reads, allows |-> o.allows, downErr |-> o.downErr]

\* Mutant of handleMessage: the method is routed before the version is
\* checked.
handleMessage_RoutesFirst(s, raw, outcome) ==
    LET d == Decode(raw)
    IN  IF d.err
        THEN Handled(Some(Response(None, None,
                                   Some(Error(ParseError, "Parse error", "unmarshal error")))),
                     FALSE, Pure(s, None, None))
        ELSE LET req == d.req[1]
                 o == routeMethod(s, req.Method, req.Params, outcome)
             IN  IF o.error # None
                 THEN Handled(Some(Response(req.ID, None, o.error)), TRUE, o)
                 ELSE IF req.JSONRPC # "2.0"
                 THEN Handled(Some(Response(req.ID, None,
                                            Some(Error(InvalidRequest, "Invalid Request",
                                                       "jsonrpc must be '2.0'")))),
                              TRUE, o)
                 ELSE Handled(Some(Response(req.ID, o.result, None)), TRUE, o)

handleMessage(s, raw, outcome) ==
    LET d == Decode(raw)
    IN  IF d.err
        THEN Handled(Some(Response(None, None,
                                   Some(Error(ParseError, "Parse error", "unmarshal error")))),
                     FALSE, Pure(s, None, None))
        ELSE LET req == d.req[1]
             IN  IF req.JSONRPC # "2.0"
                 THEN Handled(Some(Response(req.ID, None,
                                            Some(Error(InvalidRequest, "Invalid Request",
                                                       "jsonrpc must be '2.0'")))),
                              FALSE, Pure(s, None, None))
                 ELSE LET o == routeMethod(s, req.Method, req.Params, outcome)
                      IN  IF o.error # None
                          THEN Handled(Some(Response(req.ID, None, o.error)), TRUE, o)
                          ELSE Handled(Some(Response(req.ID, o.result, None)), TRUE, o)

\* ------------------------------------------------------------------------
\* Inputs
\* ------------------------------------------------------------------------
ToolNames == WriteTools \cup IndexTools \cup {"get_record", "cluster_info", "no_such_tool"}

URIs == {URI("aerospike://", "cluster", "info"), URI("aerospike://", "ns", "test"),
         URI("aerospike://", "nope", ""), URI("http://", "cluster", "info")}

Methods == {"initialize", "initialized", "shutdown", "tools/list", "tools/call",
            "resources/list", "resources/read", "prompts/list", "bogus/method"}

VersionFields == {"absent", "2.0", "1.0", "#number"}

IdFields == {NoIdField, NullIdField, IdField(1), IdField(2)}

ParamsOf(method) ==
    CASE method = "tools/call" ->
            {NoParams, BadParams} \cup {CallParams(n) : n \in ToolNames}
      [] method = "resources/read" ->
            {NoParams, BadParams} \cup {ReadParams(u) : u \in URIs}
      [] method = "initialize" -> {NoParams, BadParams, CallParams("")}
      [] OTHER -> {NoParams}

RawMessages ==
    {Raw(k, "absent", NoIdField, "", NoParams) : k \in {"garbage", "array", "null"}}
      \cup {Object("#number", i, m, NoParams) : i \in IdFields, m \in Methods}
      \cup UNION {UNION {{Object(v, i, m, p) : p \in ParamsOf(m)} : m \in Methods}
                    : <<v, i>> \in (VersionFields \ {"#number"}) \X IdFields}

BurstSizes == {1}
BufferSizes == {1}

\* The configurations; without a sink the enabled flag is never read.
AllConfigs ==
    {c \in [Role : Roles, Transport : {"stdio", "sse", "websocket"},
            AuditEnabled : BOOLEAN, SinkOpens : BOOLEAN,
            BufferSize : BufferSizes, RateLimitEnabled : BOOLEAN,
            RateLimitBurst : BurstSizes] : ~c.SinkOpens => c.AuditEnabled}

Configs == {c \in AllConfigs : c.Transport = "stdio"}

\* ------------------------------------------------------------------------
\* The server and the unary (stdio) transport
\* ------------------------------------------------------------------------
Server == [tools |-> tools, rateLimiter |-> rateLimiter,
           auditLogger |-> auditLogger, now |-> now]

NoRaw == Raw("none", "absent", NoIdField, "", NoParams)

NoClients == [c \in {} |-> 0]

\* No handler is in flight; nothing is recorded of the past.
NoThreads == [h \in {} |-> 0]
NoHist == <<>>

\* The locals of one iteration of the transport loop, or of one HTTP
\* handler: the message, the decoded request, the response, the frames the
\* transport emitted for it, each <<channel, bytes>> with the channel
\* "stdout", "queue", "http" or "stream", the HTTP status, and what the
\* method handlers did; before and at are the limiter and the time it
\* started with; for a handler of the HTTP transports, session and queue
\* are the session it found and the queue of that session when it started,
\* and log the lines it logged.
Done(op, raw, h, frames, status, s) ==
    [op |-> op, raw |-> raw, req |-> Decode(raw).req, resp |-> h.resp,
     frames |-> frames, status |-> status, routed |-> h.routed,
     logged |-> h.logged, calls |-> h.calls, runs |-> h.runs,
     reads |-> h.reads, allows |-> h.allows, downErr |-> h.downErr,
     before |-> s.rateLimiter, at |-> s.now,
     session |-> "", queue |-> <<>>, log |-> <<>>]

Idle == [op |-> "idle", raw |-> NoRaw, req |-> None, resp |-> None,
         frames |-> <<>>, status |-> 0, routed |-> FALSE, logged |-> <<>>,
         calls |-> <<>>, runs |-> <<>>, reads |-> <<>>, allows |-> 0,
         downErr |-> None,
         before |-> NewRateLimiter([Enabled |-> FALSE, BurstSize |-> 1], 0),
         at |-> 0, session |-> "", queue |-> <<>>, log |-> <<>>]

\* A handler that ended without handling a message.
Plain(op, frames, status) == [Idle EXCEPT !.op = op, !.frames = frames, !.status = status]

\* NewServer: logger, limiter and registries from the configuration.
NewServer(cfg) ==
    [tools       |-> NewRegistry(cfg.Role),
     rateLimiter |-> NewRateLimiter([Enabled |-> cfg.RateLimitEnabled,
                                     BurstSize |-> cfg.RateLimitBurst], 0),
     auditLogger |-> NewLogger([Enabled |-> cfg.AuditEnabled,
                                SinkOpens |-> cfg.SinkOpens,
                                BufferSize |-> cfg.BufferSize])]

\* Server.Run up to the transport: the start of the server is audited.
Run(cfg) ==
    LET s == NewServer(cfg)
        started == AuditLog(s.auditLogger,
                            Event("INFO", "SYSTEM", "server_start", TRUE, None), 0)
    IN  /\ config = cfg
        /\ tools = s.tools
        /\ rateLimiter = s.rateLimiter
        /\ auditLogger = started.logger
        /\ now = 0
        /\ line = None
        /\ last = Idle
        /\ sseClients = NoClients
        /\ wsClients = NoClients
        /\ threads = NoThreads
        /\ hist = NoHist

Init ==
    /\ \E cfg \in Configs : Run(cfg)
    /\ pc = "read"

\* runStdio, reader.ReadBytes: the next line of the input is read.
ReadLine(raw) ==
    /\ pc = "read"
    /\ pc' = "handle"
    /\ line' = Some(raw)
    /\ UNCHANGED <<config, tools, rateLimiter, auditLogger, now, last,
                   sseClients, wsClients,
                   threads, hist>>

\* runStdio: the line is handled and the response, when there is one, is
\* written as one frame.
HandleLine(outcome) ==
    /\ pc = "handle"
    /\ LET h == handleMessage(Server, line[1], outcome)
           frames == IF h.resp # None
                     THEN <<<<"stdout", Marshal(h.resp[1])>>>> ELSE <<>>
       IN  /\ rateLimiter' = h.rl
           /\ auditLogger' = h.logger
           /\ last' = Done("stdio", line[1], h, frames, 0, Server)
    /\ pc' = "loop"
    /\ line' = None
    /\ UNCHANGED <<config, tools, now, sseClients, wsClients,
                   threads, hist>>

\* runStdio: the iteration ends and the loop goes back to reading.
LoopBack ==
    /\ pc = "loop"
    /\ pc' = "read"
    /\ last' = Idle
    /\ UNCHANGED <<config, tools, rateLimiter, auditLogger, now, line,
                   sseClients, wsClients,
                   threads, hist>>

\* Wall-clock time passes.
Tick ==
    /\ now < MaxTime
    /\ now' = now + 1
    /\ UNCHANGED <<config, tools, rateLimiter, auditLogger, pc, line, last,
                   sseClients, wsClients,
                   threads, hist>>

Next ==
    \/ \E raw \in RawMessages : ReadLine(raw)
    \/ \E outcome \in Outcomes : HandleLine(outcome)
    \/ LoopBack
    \/ Tick

Spec == Init /\ [][Next]_vars

\* ------------------------------------------------------------------------
\* The push-stream (SSE) and polling (WebSocket) transports
\* ------------------------------------------------------------------------
\* Capacity of a client's message channel in the model; the code makes the
\* channels with room for 100 messages.
QueueCap == 2

ClientIds == {"c1", "c2"}

\* The bodies posted to the HTTP transports.
Bodies ==
    {Raw("garbage", "absent", NoIdField, "", NoParams),
     Object("2.0", NoIdField, "initialized", NoParams),
     Object("2.0", IdField(1), "prompts/list", NoParams),
     Object("2.0", IdField(2), "shutdown", NoParams)}

HTTPConfigs ==
    {c \in AllConfigs : /\ c.Transport \in {"sse", "websocket"}
                        /\ c.Role = "admin"
                        /\ c.SinkOpens /\ c.AuditEnabled /\ c.RateLimitEnabled}

InitHTTP ==
    /\ \E cfg \in HTTPConfigs : Run(cfg)
    /\ pc = "serve"

With(clients, id, client) ==
    [c \in DOMAIN clients \cup {id} |-> IF c = id THEN client ELSE clients[c]]

Without(clients, id) == [c \in DOMAIN clients \ {id} |-> clients[c]]

Serving(transport) == pc = "serve" /\ config.Transport = transport

\* Mutant of trySend: the message goes to the head of the channel.
trySend_Prepends(queue, msg) ==
    IF Len(queue) < QueueCap
    THEN [ok |-> TRUE, queue |-> <<msg>> \o queue]
    ELSE [ok |-> FALSE, queue |-> queue]

\* Mutant of trySend: the capacity of the channel is not looked at.
trySend_Overfills(queue, msg) == [ok |-> TRUE, queue |-> Append(queue, msg)]

\* select { case ch <- msg: ... default: ... } on a buffered channel: the
\* message is queued when there is room, and the default is taken when
\* there is none.
trySend(queue, msg) ==
    IF Len(queue) < QueueCap
    THEN [ok |-> TRUE, queue |-> Append(queue, msg)]
    ELSE [ok |-> FALSE, queue |-> queue]

\* Mutant of tryReceive: the newest message is taken, not the oldest.
tryReceive_TakesNewest(queue) ==
    IF queue # <<>>
    THEN [ok |-> TRUE, msg |-> queue[Len(queue)],
          queue |-> SubSeq(queue, 1, Len(queue) - 1)]
    ELSE [ok |-> FALSE, msg |-> <<>>, queue |-> queue]

\* select { case msg := <-ch: ... default: ... }: the oldest message is
\* taken when there is one.
tryReceive(queue) ==
    IF queue # <<>>
    THEN [ok |-> TRUE, msg |-> Head(queue), queue |-> Tail(queue)]
    ELSE [ok |-> FALSE, msg |-> <<>>, queue |-> queue]

\* The line logged when the queue of an SSE session is full.
BufferFull(sessionId) == <<"Client message buffer full: ", sessionId>>

\* SSEServer.handleSSE up to its loop: the client is registered and the
\* endpoint event written; when that write fails the handler returns.
SSEConnect(id, writeOk) ==
    /\ Serving("sse")
    /\ id \notin DOMAIN sseClients
    /\ sseClients' = With(sseClients, id, [messages |-> <<>>, streaming |-> writeOk])
    /\ last' = Plain("sse-connect",
                     IF writeOk THEN <<<<"stream", <<<<"endpoint", id>>>>>>>> ELSE <<>>,
                     200)
    /\ UNCHANGED <<config, tools, rateLimiter, auditLogger, now, pc, line, wsClients,
                   threads, hist>>

\* SSEServer.handleSSE, the loop: the next queued message is written as an
\* event; when the write fails the handler returns and deregisters.
SSEDeliver(id, writeOk) ==
    /\ Serving("sse")
    /\ id \in DOMAIN sseClients
    /\ sseClients[id].streaming
    /\ sseClients[id].messages # <<>>
    /\ sseClients' =
          IF writeOk
          THEN [sseClients EXCEPT ![id].messages = Tail(@)]
          ELSE Without(sseClients, id)
    /\ last' = Plain("sse-stream",
                     IF writeOk
                     THEN <<<<"stream", Head(sseClients[id].messages)>>>> ELSE <<>>,
                     200)
    /\ UNCHANGED <<config, tools, rateLimiter, auditLogger, now, pc, line, wsClients,
                   threads, hist>>

\* SSEServer.handleSSE, the loop: the request is cancelled, the handler
\* returns and deregisters.
SSEDisconnect(id) ==
    /\ Serving("sse")
    /\ id \in DOMAIN sseClients
    /\ sseClients[id].streaming
    /\ sseClients' = Without(sseClients, id)
    /\ last' = Plain("sse-disconnect", <<>>, 200)
    /\ UNCHANGED <<config, tools, rateLimiter, auditLogger, now, pc, line, wsClients,
                   threads, hist>>

\* Mutant of SSEPost: a session that is not found has its body handled
\* and the response queued for a session that is.
SSEPost_AnswersSomeSession(sessionId, raw, outcome) ==
    /\ Serving("sse")
    /\ IF sessionId = ""
       THEN /\ last' = Plain("sse-post", <<>>, 400)
            /\ UNCHANGED <<rateLimiter, auditLogger, sseClients>>
       ELSE IF sseClients = NoClients
       THEN /\ last' = [Plain("sse-post", <<>>, 404) EXCEPT !.session = sessionId]
            /\ UNCHANGED <<rateLimiter, auditLogger, sseClients>>
       ELSE LET found == IF sessionId \in DOMAIN sseClients THEN sessionId
                         ELSE CHOOSE c \in DOMAIN sseClients : TRUE
                h == handleMessage(Server, raw, outcome)
                bytes == Marshal(h.resp[1])
                queue == sseClients[found].messages
                sent == trySend(queue, bytes)
                queued == h.resp # None /\ sent.ok
            IN  /\ rateLimiter' = h.rl
                /\ auditLogger' = h.logger
                /\ sseClients' =
                      IF queued
                      THEN [sseClients EXCEPT ![found].messages = sent.queue]
                      ELSE sseClients
                /\ last' = [Done("sse-post", raw, h,
                                 IF queued THEN <<<<"queue", bytes>>>> ELSE <<>>,
                                 202, Server)
                              EXCEPT !.session = sessionId,
                                     !.queue = queue,
                                     !.log = IF h.resp # None /\ ~sent.ok
                                             THEN <<BufferFull(found)>> ELSE <<>>]
    /\ UNCHANGED <<config, tools, now, pc, line, wsClients,
                   threads, hist>>

\* SSEServer.handleMessage for a POST: the session is looked up, the body
\* handled and the response queued unless the channel is full.
SSEPost(sessionId, raw, outcome) ==
    /\ Serving("sse")
    /\ IF sessionId = ""
       THEN /\ last' = Plain("sse-post", <<>>, 400)
            /\ UNCHANGED <<rateLimiter, auditLogger, sseClients>>
       ELSE IF sessionId \notin DOMAIN sseClients
       THEN /\ last' = [Plain("sse-post", <<>>, 404) EXCEPT !.session = sessionId]
            /\ UNCHANGED <<rateLimiter, auditLogger, sseClients>>
       ELSE LET h == handleMessage(Server, raw, outcome)
                bytes == Marshal(h.resp[1])
                queue == sseClients[sessionId].messages
                sent == trySend(queue, bytes)
                queued == h.resp # None /\ sent.ok
                dropped == h.resp # None /\ ~sent.ok
            IN  /\ rateLimiter' = h.rl
                /\ auditLogger' = h.logger
                /\ sseClients' =
                      IF queued
                      THEN [sseClients EXCEPT ![sessionId].messages = sent.queue]
                      ELSE sseClients
                /\ last' = [Done("sse-post", raw, h,
                                 IF queued THEN <<<<"queue", bytes>>>> ELSE <<>>,
                                 202, Server)
                              EXCEPT !.session = sessionId,
                                     !.queue = queue,
                                     !.log = IF dropped THEN <<BufferFull(sessionId)>>
                                             ELSE <<>>]
    /\ UNCHANGED <<config, tools, now, pc, line, wsClients,
                   threads, hist>>

\* WebSocketServer.handleWebSocket: the client is registered.
WSConnect(id) ==
    /\ Serving("websocket")
    /\ id \notin DOMAIN wsClients
    /\ wsClients' = With(wsClients, id, [messages |-> <<>>, lastPing |-> now])
    /\ last' = Plain("ws-connect", <<>>, 200)
    /\ UNCHANGED <<config, tools, rateLimiter, auditLogger, now, pc, line, sseClients,
                   threads, hist>>

\* WebSocketServer.handleSend for a POST: the client is looked up, the body
\* handled, the response queued, the oldest queued message making room for
\* it when the channel is full, and written as the reply as well.
WSSend(clientId, raw, outcome) ==
    /\ Serving("websocket")
    /\ IF clientId = ""
       THEN /\ last' = Plain("ws-send", <<>>, 400)
            /\ UNCHANGED <<rateLimiter, auditLogger, wsClients>>
       ELSE IF clientId \notin DOMAIN wsClients
       THEN /\ last' = [Plain("ws-send", <<>>, 404) EXCEPT !.session = clientId]
            /\ UNCHANGED <<rateLimiter, auditLogger, wsClients>>
       ELSE LET h == handleMessage(Server, raw, outcome)
                bytes == IF h.resp = None THEN <<<<"null", "null">>>>
                         ELSE Marshal(h.resp[1])
                queue == wsClients[clientId].messages
                sent == trySend(queue, bytes)
                after == IF sent.ok THEN sent.queue
                         ELSE Append(tryReceive(queue).queue, bytes)
            IN  /\ rateLimiter' = h.rl
                /\ auditLogger' = h.logger
                /\ wsClients' = [wsClients EXCEPT ![clientId].lastPing = now,
                                                  ![clientId].messages = after]
                /\ last' = [Done("ws-send", raw, h,
                                 <<<<"queue", bytes>>, <<"http", bytes>>>>, 200, Server)
                              EXCEPT !.session = clientId, !.queue = queue]
    /\ UNCHANGED <<config, tools, now, pc, line, sseClients,
                   threads, hist>>

\* WebSocketServer.handleReceive: the oldest queued message is written as
\* the reply, or the no-op payload when the wait times out.
WSReceive(clientId) ==
    /\ Serving("websocket")
    /\ IF clientId = ""
       THEN /\ last' = Plain("ws-receive", <<>>, 400)
            /\ UNCHANGED wsClients
       ELSE IF clientId \notin DOMAIN wsClients
       THEN /\ last' = [Plain("ws-receive", <<>>, 404) EXCEPT !.session = clientId]
            /\ UNCHANGED wsClients
       ELSE LET queue == wsClients[clientId].messages
            IN  IF queue # <<>>
                THEN /\ wsClients' = [wsClients EXCEPT ![clientId].lastPing = now,
                                                       ![clientId].messages = Tail(queue)]
                     /\ last' = [Plain("ws-receive", <<<<"http", Head(queue)>>>>, 200)
                                   EXCEPT !.session = clientId]
                ELSE /\ wsClients' = [wsClients EXCEPT ![clientId].lastPing = now]
                     /\ last' = [Plain("ws-receive",
                                       <<<<"http", <<<<"status", "no_messages">>>>>>>>, 200)
                                   EXCEPT !.session = clientId]
    /\ UNCHANGED <<config, tools, rateLimiter, auditLogger, now, pc, line, sseClients,
                   threads, hist>>

\* WebSocketServer.Disconnect: the client is deregistered.
Disconnect(clientId) ==
    /\ Serving("websocket")
    /\ clientId \in DOMAIN wsClients
    /\ wsClients' = Without(wsClients, clientId)
    /\ last' = Plain("ws-disconnect", <<>>, 0)
    /\ UNCHANGED <<config, tools, rateLimiter, auditLogger, now, pc, line, sseClients,
                   threads, hist>>

NextHTTP ==
    \/ \E id \in ClientIds, writeOk \in BOOLEAN : SSEConnect(id, writeOk)
    \/ \E id \in ClientIds, writeOk \in BOOLEAN : SSEDeliver(id, writeOk)
    \/ \E id \in ClientIds : SSEDisconnect(id)
    \/ \E id \in ClientIds \cup {""}, raw \in Bodies, outcome \in Outcomes :
          SSEPost(id, raw, outcome)
    \/ \E id \in ClientIds : WSConnect(id)
    \/ \E id \in ClientIds \cup {""}, raw \in Bodies, outcome \in Outcomes :
          WSSend(id, raw, outcome)
    \/ \E id \in ClientIds \cup {""} : WSReceive(id)
    \/ \E id \in ClientIds : Disconnect(id)

SpecHTTP == InitHTTP /\ [][NextHTTP]_vars

\* ------------------------------------------------------------------------
\* The send handlers of the HTTP transports step by step, several of them
\* in flight at once.  threads holds the handlers in flight, each at its
\* next statement with its session and its marshalled response; hist
\* holds, for each session, the number of sends begun, the messages that
\* entered the queue (sent) and the messages that the stream wrote or the
\* polls returned (got), in order.
\* ------------------------------------------------------------------------
\* Sends begun, over all sessions.
MaxSends == 4

Handlers == {"h1", "h2"}

NoSends == [begun |-> 0, sent |-> <<>>, got |-> <<>>]

HistOf(id) == IF id \in DOMAIN hist THEN hist[id] ELSE NoSends

RECURSIVE BegunOn(_)
BegunOn(ids) ==
    IF ids = {} THEN 0
    ELSE LET id == CHOOSE x \in ids : TRUE
         IN  hist[id].begun + BegunOn(ids \ {id})

Begun == BegunOn(DOMAIN hist)

\* The request of the k-th send of a session; a client numbers its requests.
RequestNo(k) == Object("2.0", IdField(k), "prompts/list", NoParams)

Thread(at, session, bytes) == [pc |-> at, session |-> session, bytes |-> bytes]

\* The message entered the queue of the session.
Entered(id, bytes) == With(hist, id, [HistOf(id) EXCEPT !.sent = Append(@, bytes)])

\* SSEServer.handleMessage up to the select, for a session that is found:
\* the body is handled and the response marshalled.
PostBegin(h, sessionId) ==
    /\ Serving("sse")
    /\ h \notin DOMAIN threads
    /\ sessionId \in DOMAIN sseClients
    /\ Begun < MaxSends
    /\ LET r == handleMessage(Server, RequestNo(HistOf(sessionId).begun + 1), "ok")
       IN  /\ rateLimiter' = r.rl
           /\ auditLogger' = r.logger
           /\ threads' = With(threads, h,
                              Thread("select", sessionId, Marshal(r.resp[1])))
    /\ hist' = With(hist, sessionId, [HistOf(sessionId) EXCEPT !.begun = @ + 1])
    /\ UNCHANGED <<config, tools, now, pc, line, last, sseClients, wsClients>>

\* SSEServer.handleMessage, the select: the response is queued, or dropped
\* with a warning when the channel is full.
PostSelect(h) ==
    /\ h \in DOMAIN threads
    /\ Serving("sse")
    /\ threads[h].pc = "select"
    /\ LET id == threads[h].session
           sent == trySend(sseClients[id].messages, threads[h].bytes)
       IN  /\ sseClients' = [sseClients EXCEPT ![id].messages = sent.queue]
           /\ hist' = IF sent.ok THEN Entered(id, threads[h].bytes) ELSE hist
    /\ threads' = [threads EXCEPT ![h].pc = "reply"]
    /\ UNCHANGED <<config, tools, rateLimiter, auditLogger, now, pc, line, last,
                   wsClients>>

\* WebSocketServer.handleSend up to the select, for a client that is found.
SendBegin(h, clientId) ==
    /\ Serving("websocket")
    /\ h \notin DOMAIN threads
    /\ clientId \in DOMAIN wsClients
    /\ Begun < MaxSends
    /\ LET r == handleMessage(Server, RequestNo(HistOf(clientId).begun + 1), "ok")
       IN  /\ rateLimiter' = r.rl
           /\ auditLogger' = r.logger
           /\ threads' = With(threads, h,
                              Thread("select", clientId, Marshal(r.resp[1])))
    /\ wsClients' = [wsClients EXCEPT ![clientId].lastPing = now]
    /\ hist' = With(hist, clientId, [HistOf(clientId) EXCEPT !.begun = @ + 1])
    /\ UNCHANGED <<config, tools, now, pc, line, last, sseClients>>

\* WebSocketServer.handleSend, the outer select: the response is queued,
\* or the default branch is entered when the channel is full.
SendSelect(h) ==
    /\ h \in DOMAIN threads
    /\ Serving("websocket")
    /\ threads[h].pc = "select"
    /\ LET id == threads[h].session
           sent == trySend(wsClients[id].messages, threads[h].bytes)
       IN  /\ wsClients' = [wsClients EXCEPT ![id].messages = sent.queue]
           /\ hist' = IF sent.ok THEN Entered(id, threads[h].bytes) ELSE hist
           /\ threads' = [threads EXCEPT ![h].pc = IF sent.ok THEN "reply" ELSE "drain"]
    /\ UNCHANGED <<config, tools, rateLimiter, auditLogger, now, pc, line, last,
                   sseClients>>

\* WebSocketServer.handleSend, the inner select: the oldest message is
\* taken off the channel when there is one.
SendDrain(h) ==
    /\ h \in DOMAIN threads
    /\ threads[h].pc = "drain"
    /\ LET id == threads[h].session
       IN  wsClients' = [wsClients EXCEPT
                            ![id].messages = tryReceive(wsClients[id].messages).queue]
    /\ threads' = [threads EXCEPT ![h].pc = "push"]
    /\ UNCHANGED <<config, tools, rateLimiter, auditLogger, now, pc, line, last,
                   sseClients, hist>>

\* WebSocketServer.handleSend, client.messages <- responseData: the send
\* waits for room in the channel.
SendPush(h) ==
    /\ h \in DOMAIN threads
    /\ threads[h].pc = "push"
    /\ LET id == threads[h].session
       IN  /\ Len(wsClients[id].messages) < QueueCap
           /\ wsClients' = [wsClients EXCEPT ![id].messages = Append(@, threads[h].bytes)]
           /\ hist' = Entered(id, threads[h].bytes)
    /\ threads' = [threads EXCEPT ![h].pc = "reply"]
    /\ UNCHANGED <<config, tools, rateLimiter, auditLogger, now, pc, line, last,
                   sseClients>>

\* Either handler writes its reply and returns.
Reply(h) ==
    /\ h \in DOMAIN threads
    /\ threads[h].pc = "reply"
    /\ threads' = Without(threads, h)
    /\ UNCHANGED <<config, tools, rateLimiter, auditLogger, now, pc, line, last,
                   sseClients, wsClients, hist>>

\* SSEServer.handleSSE, the loop: the next message of the channel is
\* written to the stream.
StreamEvent(id) ==
    /\ Serving("sse")
    /\ id \in DOMAIN sseClients
    /\ sseClients[id].streaming
    /\ LET r == tryReceive(sseClients[id].messages)
       IN  /\ r.ok
           /\ sseClients' = [sseClients EXCEPT ![id].messages = r.queue]
           /\ hist' = With(hist, id, [HistOf(id) EXCEPT !.got = Append(@, r.msg)])
    /\ UNCHANGED <<config, tools, rateLimiter, auditLogger, now, pc, line, last,
                   wsClients, threads>>

\* WebSocketServer.handleReceive with a message in the channel: it is
\* taken and written as the reply.
PollReceive(id) ==
    /\ Serving("websocket")
    /\ id \in DOMAIN wsClients
    /\ LET r == tryReceive(wsClients[id].messages)
       IN  /\ r.ok
           /\ wsClients' = [wsClients EXCEPT ![id].lastPing = now,
                                             ![id].messages = r.queue]
           /\ hist' = With(hist, id, [HistOf(id) EXCEPT !.got = Append(@, r.msg)])
    /\ UNCHANGED <<config, tools, rateLimiter, auditLogger, now, pc, line, last,
                   sseClients, threads>>

NextSteps ==
    \/ \E id \in ClientIds, writeOk \in BOOLEAN : SSEConnect(id, writeOk)
    \/ \E id \in ClientIds : WSConnect(id)
    \/ \E h \in Handlers, id \in ClientIds : PostBegin(h, id)
    \/ \E h \in Handlers : PostSelect(h)
    \/ \E h \in Handlers, id \in ClientIds : SendBegin(h, id)
    \/ \E h \in Handlers : SendSelect(h)
    \/ \E h \in Handlers : SendDrain(h)
    \/ \E h \in Handlers : SendPush(h)
    \/ \E h \in Handlers : Reply(h)
    \/ \E id \in ClientIds : StreamEvent(id)
    \/ \E id \in ClientIds : PollReceive(id)

SpecSteps == InitHTTP /\ [][NextSteps]_vars

\* ------------------------------------------------------------------------
\* The polling adapter with its clock: receives that wait for a message,
\* sends that find a receiver waiting, and the sweep of stale clients.
\* threads holds the receive handlers in flight.  hist holds, for each
\* registered client, the time of its last connect, send or receive
\* (active), and what the last step did (step).
\* ------------------------------------------------------------------------
\* The wait of handleReceive (30 s) and the age beyond which the sweep
\* removes a client (5 min), in ticks of the model's clock.
ReceiveTimeout == 1

IdleThreshold == 1

\* The WriteTimeout of the http.Server of the adapter (30 s, the wait of
\* handleReceive): the time, from the end of the read of a request, after
\* which the connection carries no byte of the reply.
WriteTimeout == ReceiveTimeout

\* The requests a client has open at a time; it numbers them.
\* The receive handlers in flight at a time.
Pollers == {"h1"}

PollBodies ==
    {Object("2.0", IdField(1), "prompts/list", NoParams),
     Object("2.0", IdField(2), "prompts/list", NoParams)}

NoMessages == <<<<"status", "no_messages">>>>

\* A receive handler in flight: the client it found, the time it began,
\* the message it received and the time its select ended.
Receiver(at, session, began, msg, took) ==
    [pc |-> at, session |-> session, began |-> began, msg |-> msg, took |-> took]

\* The receive handlers parked in the select of handleReceive on the
\* channel of a client.
ParkedOn(clientId) ==
    {h \in DOMAIN threads : threads[h].pc = "wait" /\ threads[h].session = clientId}

\* The handlers in flight that hold the client of this id.
HeldBy(clientId) == {h \in DOMAIN threads : threads[h].session = clientId}

\* The step of a handler on a client, with its HTTP status.
StepOn(op, clientId, status) == Some([op |-> op, session |-> clientId, status |-> status])

InitPoll ==
    /\ \E cfg \in HTTPConfigs :
          LET s == NewServer(cfg)
              started == AuditLog(s.auditLogger,
                                  Event("INFO", "SYSTEM", "server_start", TRUE, None), 0)
          IN  /\ cfg.Transport = "websocket"
              /\ config = cfg
              /\ tools = s.tools
              /\ rateLimiter = s.rateLimiter
              /\ auditLogger = started.logger
    /\ now = 0
    /\ pc = "serve"
    /\ line = None
    /\ last = Idle
    /\ sseClients = NoClients
    /\ wsClients = NoClients
    /\ threads = NoThreads
    /\ hist = [active |-> NoClients, step |-> None]

\* WebSocketServer.handleWebSocket: the client is registered under a new id.
PollConnect(id) ==
    /\ Serving("websocket")
    /\ id \notin DOMAIN wsClients
    /\ HeldBy(id) = {}
    /\ wsClients' = With(wsClients, id, [messages |-> <<>>, lastPing |-> now])
    /\ hist' = [active |-> With(hist.active, id, now),
                step |-> StepOn("connect", id, 200)]
    /\ UNCHANGED <<config, tools, rateLimiter, auditLogger, now, pc, line, last,
                   sseClients, threads>>

\* WebSocketServer.handleSend: as WSSend, and a receive handler parked on
\* the channel receives the response from the send itself.  The response
\* to a request is not in the channel already.
PollSend(clientId, raw) ==
    /\ Serving("websocket")
    /\ IF clientId = ""
       THEN /\ hist' = [hist EXCEPT !.step = StepOn("send", clientId, 400)]
            /\ UNCHANGED <<rateLimiter, auditLogger, wsClients, threads>>
       ELSE IF clientId \notin DOMAIN wsClients
       THEN /\ hist' = [hist EXCEPT !.step = StepOn("send", clientId, 404)]
            /\ UNCHANGED <<rateLimiter, auditLogger, wsClients, threads>>
       ELSE LET h == handleMessage(Server, raw, "ok")
                bytes == Marshal(h.resp[1])
                queue == wsClients[clientId].messages
                sent == trySend(queue, bytes)
                after == IF sent.ok THEN sent.queue
                         ELSE Append(tryReceive(queue).queue, bytes)
            IN  /\ \A i \in 1..Len(queue) : queue[i] # bytes
                /\ rateLimiter' = h.rl
                /\ auditLogger' = h.logger
                /\ IF ParkedOn(clientId) # {}
                   THEN /\ \E r \in ParkedOn(clientId) :
                             threads' = [threads EXCEPT ![r].pc = "write",
                                                        ![r].msg = Some(bytes),
                                                        ![r].took = now]
                        /\ wsClients' = [wsClients EXCEPT ![clientId].lastPing = now]
                   ELSE /\ wsClients' = [wsClients EXCEPT ![clientId].lastPing = now,
                                                          ![clientId].messages = after]
                        /\ UNCHANGED threads
                /\ hist' = [active |-> With(hist.active, clientId, now),
                            step |-> StepOn("send", clientId, 200)]
    /\ UNCHANGED <<config, tools, now, pc, line, last, sseClients>>

\* WebSocketServer.handleReceive up to its select: the client is looked
\* up and its lastPing set; the select takes the oldest message of the
\* channel, or parks the handler until a message or the timer.
ReceiveBegin(h, clientId) ==
    /\ Serving("websocket")
    /\ h \notin DOMAIN threads
    /\ now + ReceiveTimeout <= MaxTime
    /\ IF clientId = ""
       THEN /\ hist' = [hist EXCEPT !.step = StepOn("receive", clientId, 400)]
            /\ UNCHANGED <<wsClients, threads>>
       ELSE IF clientId \notin DOMAIN wsClients
       THEN /\ hist' = [hist EXCEPT !.step = StepOn("receive", clientId, 404)]
            /\ UNCHANGED <<wsClients, threads>>
       ELSE LET queue == wsClients[clientId].messages
                r == tryReceive(queue)
            IN  /\ wsClients' = [wsClients EXCEPT ![clientId].lastPing = now,
                                                  ![clientId].messages = r.queue]
                /\ threads' = With(threads, h,
                       IF r.ok
                       THEN Receiver("write", clientId, now, Some(r.msg), now)
                       ELSE Receiver("wait", clientId, now, None, now))
                /\ hist' = [active |-> With(hist.active, clientId, now),
                            step |-> Some([op |-> "select", session |-> clientId,
                                           status |-> 0, handler |-> h,
                                           found |-> queue])]
    /\ UNCHANGED <<config, tools, rateLimiter, auditLogger, now, pc, line, last,
                   sseClients>>

\* Time passes; the timer of a parked receive fires when its wait is over.
Elapse ==
    /\ Serving("websocket")
    /\ now < MaxTime
    /\ now' = now + 1
    /\ threads' = [h \in DOMAIN threads |->
                      IF /\ threads[h].pc = "wait"
                         /\ threads[h].began + ReceiveTimeout <= now + 1
                      THEN [threads[h] EXCEPT !.pc = "timeout", !.took = now + 1]
                      ELSE threads[h]]
    /\ hist' = [hist EXCEPT !.step = None]
    /\ UNCHANGED <<config, tools, rateLimiter, auditLogger, pc, line, last,
                   sseClients, wsClients>>

\* The connection of a request read at time began still carries a reply
\* written at time t: its write deadline, set as the request was read and
\* so before the handler began, has not passed.
Writable(began, t) == t < began + WriteTimeout

\* What a receive handler did, at its end: what ended its select, what it
\* wrote as the reply and what the connection carried to the client.
Returned(thread, cause, wrote) ==
    Some([op |-> "return", session |-> thread.session, status |-> 200,
          began |-> thread.began, msg |-> thread.msg, took |-> thread.took,
          cause |-> cause, wrote |-> wrote,
          reply |-> IF Writable(thread.began, thread.took) THEN wrote ELSE None])

\* WebSocketServer.handleReceive, the request is cancelled while the
\* handler is parked: it returns without a reply.
ReceiveCancel(h) ==
    /\ h \in DOMAIN threads
    /\ threads[h].pc = "wait"
    /\ threads' = Without(threads, h)
    /\ hist' = [hist EXCEPT !.step = Returned(threads[h], "cancel", None)]
    /\ UNCHANGED <<config, tools, rateLimiter, auditLogger, now, pc, line, last,
                   sseClients, wsClients>>

\* WebSocketServer.handleReceive after its select: the message, or the
\* no-op payload after the timer, is written as the reply.
ReceiveReturn(h) ==
    /\ h \in DOMAIN threads
    /\ threads[h].pc \in {"write", "timeout"}
    /\ hist' = [hist EXCEPT !.step =
                    IF threads[h].pc = "write"
                    THEN Returned(threads[h], "message", threads[h].msg)
                    ELSE Returned(threads[h], "timeout", Some(NoMessages))]
    /\ threads' = Without(threads, h)
    /\ UNCHANGED <<config, tools, rateLimiter, auditLogger, now, pc, line, last,
                   sseClients, wsClients>>

\* Mutant of Stale: a client is stale at the threshold already.
Stale_AtThreshold(client, t) == t - client.lastPing >= IdleThreshold

\* cleanupStaleClients, the test of one client.
Stale(client, t) == t - client.lastPing > IdleThreshold

\* cleanupStaleClients, one pass of the ticker: the stale clients are
\* removed from the registry.
Sweep ==
    /\ Serving("websocket")
    /\ LET removed == {id \in DOMAIN wsClients : Stale(wsClients[id], now)}
       IN  /\ wsClients' = [id \in DOMAIN wsClients \ removed |-> wsClients[id]]
           /\ hist' = [active |-> [id \in DOMAIN hist.active \ removed |-> hist.active[id]],
                       step |-> Some([op |-> "sweep", session |-> "", status |-> 0,
                                      at |-> now, before |-> hist.active,
                                      removed |-> removed])]
    /\ UNCHANGED <<config, tools, rateLimiter, auditLogger, now, pc, line, last,
                   sseClients, threads>>

NextPoll ==
    \/ \E id \in ClientIds : PollConnect(id)
    \/ \E id \in ClientIds \cup {""}, raw \in PollBodies : PollSend(id, raw)
    \/ \E h \in Pollers, id \in ClientIds \cup {""} : ReceiveBegin(h, id)
    \/ \E h \in Pollers : ReceiveCancel(h)
    \/ \E h \in Pollers : ReceiveReturn(h)
    \/ Elapse
    \/ Sweep

SpecPoll == InitPoll /\ [][NextPoll]_vars

\* The clock and the ticker of the sweep run, and a handler that can reply
\* does.
FairPoll ==
    /\ WF_vars(Elapse)
    /\ WF_vars(Sweep)
    /\ \A h \in Pollers : WF_vars(ReceiveReturn(h))

SpecPollFair == SpecPoll /\ FairPoll

\* ------------------------------------------------------------------------
\* The loop of runStdio with its input, its output and the cancellation of
\* its context.  hist holds the lines the input gave, each ended by a
\* newline (lines), the lines given to handleMessage (handled), the frames
\* written with the number of the line each answers (wrote), whether the
\* context is cancelled (cancelled), and how the loop returned (end).
\* ------------------------------------------------------------------------
\* Lines of one input stream.
MaxLines == 3

StreamLines ==
    {Raw("garbage", "absent", NoIdField, "", NoParams),
     Object("2.0", NoIdField, "initialized", NoParams),
     Object("2.0", IdField(1), "prompts/list", NoParams)}

\* How runStdio returned: its error, and the unterminated bytes that
\* ReadBytes gave with io.EOF.
Ended(err, tail) == Some([err |-> err, tail |-> tail])

InitStream ==
    /\ \E cfg \in Configs :
          LET s == NewServer(cfg)
              started == AuditLog(s.auditLogger,
                                  Event("INFO", "SYSTEM", "server_start", TRUE, None), 0)
          IN  /\ cfg.Transport = "stdio"
              /\ config = cfg
              /\ tools = s.tools
              /\ rateLimiter = s.rateLimiter
              /\ auditLogger = started.logger
    /\ now = 0
    /\ pc = "loop"
    /\ line = None
    /\ last = Idle
    /\ sseClients = NoClients
    /\ wsClients = NoClients
    /\ threads = NoThreads
    /\ hist = [lines |-> <<>>, handled |-> <<>>, wrote |-> <<>>,
               cancelled |-> FALSE, end |-> None]

\* The context of Run is cancelled.
Cancel ==
    /\ pc \in {"loop", "read", "handle"}
    /\ ~hist.cancelled
    /\ hist' = [hist EXCEPT !.cancelled = TRUE]
    /\ UNCHANGED <<config, tools, rateLimiter, auditLogger, now, pc, line, last,
                   sseClients, wsClients, threads>>

\* runStdio, the select at the top of the loop: the loop returns the
\* error of the context when it is cancelled, and goes to read otherwise.
StreamSelect ==
    /\ pc = "loop"
    /\ IF hist.cancelled
       THEN /\ pc' = "exit"
            /\ hist' = [hist EXCEPT !.end = Ended(Some("context canceled"), None)]
       ELSE /\ pc' = "read"
            /\ UNCHANGED hist
    /\ UNCHANGED <<config, tools, rateLimiter, auditLogger, now, line, last,
                   sseClients, wsClients, threads>>

\* runStdio, reader.ReadBytes returns a line.
StreamRead(raw) ==
    /\ pc = "read"
    /\ Len(hist.lines) < MaxLines
    /\ pc' = "handle"
    /\ line' = Some(raw)
    /\ hist' = [hist EXCEPT !.lines = Append(@, raw)]
    /\ UNCHANGED <<config, tools, rateLimiter, auditLogger, now, last,
                   sseClients, wsClients, threads>>

\* Mutant of StreamEnd: the bytes before the end of the stream are
\* handled as a line.
StreamEnd_HandlesTail(tail) ==
    /\ pc = "read"
    /\ IF tail = None \/ Len(hist.handled) > Len(hist.lines)
       THEN /\ pc' = "exit"
            /\ hist' = [hist EXCEPT !.end = Ended(None, tail)]
            /\ UNCHANGED line
       ELSE /\ pc' = "handle"
            /\ line' = tail
            /\ UNCHANGED hist
    /\ UNCHANGED <<config, tools, rateLimiter, auditLogger, now, last,
                   sseClients, wsClients, threads>>

\* runStdio, reader.ReadBytes returns io.EOF, with the bytes that came
\* after the last newline if there are any: the loop returns nil.
StreamEnd(tail) ==
    /\ pc = "read"
    /\ pc' = "exit"
    /\ hist' = [hist EXCEPT !.end = Ended(None, tail)]
    /\ UNCHANGED <<config, tools, rateLimiter, auditLogger, now, line, last,
                   sseClients, wsClients, threads>>

\* runStdio: the line is handled and the response, when there is one, is
\* written as one frame; the loop returns the error of a failed write.
StreamHandle(outcome, writeOk) ==
    /\ pc = "handle"
    /\ LET h == handleMessage(Server, line[1], outcome)
           frames == IF h.resp # None /\ writeOk
                     THEN <<<<"stdout", Marshal(h.resp[1])>>>> ELSE <<>>
           handled == Append(hist.handled, line[1])
           wrote == IF h.resp # None /\ writeOk
                    THEN Append(hist.wrote, <<Len(handled), Marshal(h.resp[1])>>)
                    ELSE hist.wrote
       IN  /\ rateLimiter' = h.rl
           /\ auditLogger' = h.logger
           /\ last' = Done("stdio", line[1], h, frames, 0, Server)
           /\ IF h.resp # None /\ ~writeOk
              THEN /\ pc' = "exit"
                   /\ hist' = [hist EXCEPT !.handled = handled,
                                           !.end = Ended(Some("writing response"), None)]
              ELSE /\ pc' = "loop"
                   /\ hist' = [hist EXCEPT !.handled = handled, !.wrote = wrote]
    /\ line' = None
    /\ UNCHANGED <<config, tools, now, sseClients, wsClients, threads>>

NextStream ==
    \/ Cancel
    \/ StreamSelect
    \/ \E raw \in StreamLines : StreamRead(raw)
    \/ \E tail \in {None} \cup {Some(raw) : raw \in StreamLines} : StreamEnd(tail)
    \/ \E writeOk \in BOOLEAN : StreamHandle("ok", writeOk)

SpecStream == InitStream /\ [][NextStream]_vars

\* The loop takes its steps; nothing says that input arrives or that the
\* stream ends.
FairStream == WF_vars(StreamSelect) /\ WF_vars(StreamHandle("ok", TRUE))

SpecStreamFair == SpecStream /\ FairStream

\* ------------------------------------------------------------------------
\* The validator, the tool registry and tools/call on their own: one
\* operation applied to one input
\* ------------------------------------------------------------------------
\* The limits of the validators of the model are 1..MaxLimit; the texts have
\* up to MaxLimit + 1 characters and the sizes go from -1 to MaxLimit + 1.
MaxLimit == 2

RECURSIVE Repeat(_, _)
Repeat(c, n) == IF n <= 0 THEN <<>> ELSE <<c>> \o Repeat(c, n - 1)

Texts(n) == UNION {[1..k -> Chars] : k \in 0..n}

\* The validator of the server and validators whose limits are all m.
Validators ==
    {NewValidator(DefaultValidatorConfig)}
      \cup {NewValidator([MaxKeyLength |-> m, MaxBinNameLength |-> m,
                          MaxNamespaceLength |-> m, MaxSetNameLength |-> m,
                          MaxBatchSize |-> m]) : m \in 1..MaxLimit}

\* The texts given to a validator: every short text, and the texts around
\* its limit for bin names.
TextsFor(v) ==
    Texts(MaxLimit + 1)
      \cup {Repeat(c, n) : c \in {"a", "@"},
                           n \in {v.maxBinNameLength, v.maxBinNameLength + 1}}

SizesFor(v) == -1..(MaxLimit + 1) \cup {v.maxBatchSize, v.maxBatchSize + 1}

AllTools == SchemaTools \cup ReadTools \cup WriteTools \cup IndexTools \cup ClusterTools

\* The arguments of the calls of the model.
ArgumentSets ==
    {Arguments(shape, namespace, <<>>, key, confirm, confirm_destructive) :
        shape \in {"object", "bad"}, namespace \in {<<>>, <<"a">>, <<"@">>},
        key \in {<<>>, <<"a">>}, confirm \in BOOLEAN, confirm_destructive \in BOOLEAN}

Applied(op, input, output) == [op |-> op, input |-> input, output |-> output]

\* One configuration for each role, with the audit log and the limiter on.
ToolConfigs ==
    {c \in Configs : c.AuditEnabled /\ c.SinkOpens /\ c.RateLimitEnabled}

InitTools ==
    /\ \E cfg \in ToolConfigs :
          LET s == NewServer(cfg)
          IN  /\ config = cfg
              /\ tools = s.tools
              /\ rateLimiter = s.rateLimiter
              /\ auditLogger = s.auditLogger
    /\ now = 0
    /\ pc = "apply"
    /\ line = None
    /\ last = Idle
    /\ sseClients = NoClients
    /\ wsClients = NoClients
    /\ threads = NoThreads
    /\ hist = Applied("none", None, None)

\* The four validators of names and sizes are applied to a text and a size.
Validate(v, text, size) ==
    /\ pc = "apply"
    /\ pc' = "done"
    /\ hist' = Applied("Validate", [v |-> v, text |-> text, size |-> size],
                       [namespace |-> ValidateNamespace(v, text),
                        set_name  |-> ValidateSetName(v, text),
                        bin_name  |-> ValidateBinName(v, text),
                        batch     |-> ValidateBatchSize(v, size)])
    /\ UNCHANGED <<config, tools, rateLimiter, auditLogger, now, line, last,
                   sseClients, wsClients, threads>>

\* Registry.List is called on a registry of role r.
ListTools(r) ==
    /\ pc = "apply"
    /\ pc' = "done"
    /\ hist' = Applied("List", r, List(r))
    /\ UNCHANGED <<config, tools, rateLimiter, auditLogger, now, line, last,
                   sseClients, wsClients, threads>>

\* Registry.Call is called on the registry of the server.
CallTool(name, args, outcome) ==
    /\ pc = "apply"
    /\ pc' = "done"
    /\ hist' = Applied("Call", [name |-> name, args |-> args],
                       Call(tools, name, args, outcome))
    /\ UNCHANGED <<config, tools, rateLimiter, auditLogger, now, line, last,
                   sseClients, wsClients, threads>>

\* The server handles one tools/call message.
HandleToolsCall(name, args, outcome) ==
    /\ pc = "apply"
    /\ pc' = "done"
    /\ LET raw == Object("2.0", IdField(1), "tools/call", CallParamsWith(name, args))
           h == handleMessage(Server, raw, outcome)
           frames == IF h.resp # None
                     THEN <<<<"stdout", Marshal(h.resp[1])>>>> ELSE <<>>
       IN  /\ rateLimiter' = h.rl
           /\ auditLogger' = h.logger
           /\ last' = Done("stdio", raw, h, frames, 0, Server)
           /\ hist' = Applied("tools/call", [name |-> name, args |-> args], None)
    /\ UNCHANGED <<config, tools, now, line, sseClients, wsClients, threads>>

\* The requests of the batches of the model: writes that succeed or fail,
\* a request whose key cannot be built and one with an unknown operation.
BatchRequests ==
    {BatchWriteRequest("k", "put", FALSE, FALSE), BatchWriteRequest("k", "put", FALSE, TRUE),
     BatchWriteRequest("k", "delete", FALSE, FALSE),
     BatchWriteRequest("k", "delete", FALSE, TRUE),
     BatchWriteRequest("k", "put", TRUE, FALSE),
     BatchWriteRequest("k", "merge", FALSE, FALSE)}

Batches == UNION {[1..k -> BatchRequests] : k \in 0..(MaxLimit + 1)}

\* Client.BatchWrite is called under the role of the configuration.
CallBatchWrite(maxBatchSize, requests) ==
    /\ pc = "apply"
    /\ pc' = "done"
    /\ hist' = Applied("BatchWrite", [max |-> maxBatchSize, requests |-> requests],
                       BatchWrite(config.Role, maxBatchSize, requests))
    /\ UNCHANGED <<config, tools, rateLimiter, auditLogger, now, line, last,
                   sseClients, wsClients, threads>>

\* One operation is applied; the test of pc comes before the choice of the
\* input.
NextTools ==
    \/ /\ pc = "apply"
       /\ \E v \in Validators : \E text \in TextsFor(v), size \in SizesFor(v) :
             Validate(v, text, size)
    \/ /\ pc = "apply"
       /\ \E r \in Roles : ListTools(r)
    \/ /\ pc = "apply"
       /\ \E name \in AllTools \cup {"no_such_tool"}, args \in ArgumentSets,
             outcome \in Outcomes : CallTool(name, args, outcome)
    \/ /\ pc = "apply"
       /\ \E name \in AllTools \cup {"no_such_tool"}, args \in ArgumentSets,
             outcome \in Outcomes : HandleToolsCall(name, args, outcome)
    \/ /\ pc = "apply"
       /\ \E maxBatchSize \in 1..MaxLimit, requests \in Batches :
             CallBatchWrite(maxBatchSize, requests)

SpecTools == InitTools /\ [][NextTools]_vars

\* ------------------------------------------------------------------------
\* The rate limiter on its own: any caller, any call
\* ------------------------------------------------------------------------
\* Calls recorded of one limiter.
MaxCalls == 3

\* Burst sizes of the limiters; 0 asks for the default.
LimiterBursts == {0, 1, 2}

\* The n of AllowN calls.
AllowCounts == {-1, 1, 2}

\* Ticks that pass in one sleep of Wait: none when the sleep is shorter
\* than a tick.
Naps == {0, 1}

CallOf(op, n, ok, at) == [op |-> op, n |-> n, ok |-> ok, at |-> at]

InitLimiter ==
    /\ \E cfg \in [Enabled : BOOLEAN, BurstSize : LimiterBursts] :
          /\ rateLimiter = NewRateLimiter(cfg, 0)
          /\ config = cfg
    /\ tools = {}
    /\ auditLogger = None
    /\ now = 0
    /\ pc = "limiter"
    /\ line = None
    /\ last = Idle
    /\ sseClients = NoClients
    /\ wsClients = NoClients
    /\ threads = NoThreads
    /\ hist = <<>>

\* A caller calls Allow().
CallAllow ==
    /\ pc = "limiter"
    /\ Len(hist) < MaxCalls
    /\ LET a == Allow(rateLimiter, now)
       IN  /\ rateLimiter' = a.rl
           /\ hist' = Append(hist, CallOf("Allow", 1, a.ok, now))
    /\ UNCHANGED <<config, tools, auditLogger, now, pc, line, last,
                   sseClients, wsClients, threads>>

\* A caller calls AllowN(n).
CallAllowN(n) ==
    /\ pc = "limiter"
    /\ Len(hist) < MaxCalls
    /\ LET a == AllowN(rateLimiter, n, now)
       IN  /\ rateLimiter' = a.rl
           /\ hist' = Append(hist, CallOf("AllowN", n, a.ok, now))
    /\ UNCHANGED <<config, tools, auditLogger, now, pc, line, last,
                   sseClients, wsClients, threads>>

\* A caller calls Wait() and sleeps nap ticks between its tries.
CallWait(nap) ==
    /\ pc = "limiter"
    /\ Len(hist) < MaxCalls
    /\ LET w == Wait(rateLimiter, now, nap)
       IN  /\ w.at <= MaxTime
           /\ rateLimiter' = w.rl
           /\ now' = w.at
           /\ hist' = Append(hist, CallOf("Wait", 1, w.ok, w.at))
    /\ UNCHANGED <<config, tools, auditLogger, pc, line, last,
                   sseClients, wsClients, threads>>

\* A caller calls GetStats().
CallGetStats ==
    /\ pc = "limiter"
    /\ Len(hist) < MaxCalls
    /\ LET g == GetStats(rateLimiter, now)
       IN  /\ rateLimiter' = g.rl
           /\ hist' = Append(hist, CallOf("GetStats", 0, TRUE, now))
    /\ UNCHANGED <<config, tools, auditLogger, now, pc, line, last,
                   sseClients, wsClients, threads>>

NextLimiter ==
    \/ CallAllow
    \/ \E n \in AllowCounts : CallAllowN(n)
    \/ \E nap \in Naps : CallWait(nap)
    \/ CallGetStats
    \/ Tick

SpecLimiter == InitLimiter /\ [][NextLimiter]_vars

\* ------------------------------------------------------------------------
\* Allow step by step: callers of one limiter that run at the same time
\* ------------------------------------------------------------------------
\* The callers; each calls Allow() once.  No time passes, so refill adds
\* nothing.
MaxCallers == 3

Callers == 1..MaxCallers

\* A caller is at "idle" before its call, "enter" at the test of enabled,
\* "lock" before r.mu.Lock(), "test" and "dec" inside the lock, "unlock" at
\* the deferred Unlock and "done" after the return; ok is what it returns.
Caller(at, ok) == [at |-> at, ok |-> ok]

\* The mutex of the limiter is held by the caller that is inside the lock.
Locked == \E h \in DOMAIN threads : threads[h].at \in {"test", "dec", "unlock"}

InitAllow ==
    /\ \E cfg \in [Enabled : BOOLEAN, BurstSize : LimiterBursts] :
          /\ rateLimiter = NewRateLimiter(cfg, 0)
          /\ config = cfg
    /\ tools = {}
    /\ auditLogger = None
    /\ now = 0
    /\ pc = "allow"
    /\ line = None
    /\ last = Idle
    /\ sseClients = NoClients
    /\ wsClients = NoClients
    /\ threads = [h \in Callers |-> Caller("idle", FALSE)]
    /\ hist = NoHist

Moves(h, from, to, ok) ==
    /\ pc = "allow"
    /\ threads[h].at = from
    /\ threads' = [threads EXCEPT ![h] = Caller(to, ok)]

\* A caller calls Allow().
AllowCall(h) ==
    /\ Moves(h, "idle", "enter", FALSE)
    /\ UNCHANGED <<config, tools, rateLimiter, auditLogger, now, pc, line, last,
                   sseClients, wsClients, hist>>

\* Allow: a disabled limiter answers true without the lock.
AllowEnter(h) ==
    /\ IF rateLimiter.enabled
       THEN Moves(h, "enter", "lock", FALSE)
       ELSE Moves(h, "enter", "done", TRUE)
    /\ UNCHANGED <<config, tools, rateLimiter, auditLogger, now, pc, line, last,
                   sseClients, wsClients, hist>>

\* Mutant of AllowLock: the lock is taken although another caller holds it.
AllowLock_NoExclusion(h) ==
    /\ Moves(h, "lock", "test", FALSE)
    /\ rateLimiter' = refill(rateLimiter, now)
    /\ UNCHANGED <<config, tools, auditLogger, now, pc, line, last,
                   sseClients, wsClients, hist>>

\* Allow: r.mu.Lock() returns when no caller holds the mutex, and refill
\* runs.
AllowLock(h) ==
    /\ ~Locked
    /\ Moves(h, "lock", "test", FALSE)
    /\ rateLimiter' = refill(rateLimiter, now)
    /\ UNCHANGED <<config, tools, auditLogger, now, pc, line, last,
                   sseClients, wsClients, hist>>

\* Allow: the test r.tokens >= 1.
AllowTest(h) ==
    /\ IF rateLimiter.tokens >= TokenUnit
       THEN Moves(h, "test", "dec", FALSE)
       ELSE Moves(h, "test", "unlock", FALSE)
    /\ UNCHANGED <<config, tools, rateLimiter, auditLogger, now, pc, line, last,
                   sseClients, wsClients, hist>>

\* Allow: r.tokens--.
AllowDecrement(h) ==
    /\ Moves(h, "dec", "unlock", TRUE)
    /\ rateLimiter' = [rateLimiter EXCEPT !.tokens = @ - TokenUnit]
    /\ UNCHANGED <<config, tools, auditLogger, now, pc, line, last,
                   sseClients, wsClients, hist>>

\* Allow: the deferred Unlock and the return.
AllowUnlock(h) ==
    /\ Moves(h, "unlock", "done", threads[h].ok)
    /\ UNCHANGED <<config, tools, rateLimiter, auditLogger, now, pc, line, last,
                   sseClients, wsClients, hist>>

NextAllow ==
    \E h \in Callers :
        \/ AllowCall(h)
        \/ AllowEnter(h)
        \/ AllowLock(h)
        \/ AllowTest(h)
        \/ AllowDecrement(h)
        \/ AllowUnlock(h)

SpecAllow == InitAllow /\ [][NextAllow]_vars

\* ------------------------------------------------------------------------
\* The audit logger on its own
\* ------------------------------------------------------------------------
\* Events logged to one logger.
MaxEvents == 4

\* Buffer sizes of the loggers; 0 asks for the default.
LoggerBuffers == {0, 1, 2, 3}

\* The k-th event a caller logs, without a timestamp.
EventNo(k) == Event("INFO", "SYSTEM", <<"op", k>>, TRUE, None)

\* hist is what the callers saw: the events given to Log, stamped with the
\* time of the call, the records that reached the sink, and the answer of
\* the GetRecentEvents call made since the last Log.
InitLogger ==
    /\ \E cfg \in [Enabled : BOOLEAN, SinkOpens : {TRUE}, BufferSize : LoggerBuffers] :
          /\ auditLogger = NewLogger(cfg)
          /\ config = cfg
    /\ tools = {}
    /\ rateLimiter = NewRateLimiter([Enabled |-> FALSE, BurstSize |-> 1], 0)
    /\ now = 0
    /\ pc = "logger"
    /\ line = None
    /\ last = Idle
    /\ sseClients = NoClients
    /\ wsClients = NoClients
    /\ threads = NoThreads
    /\ hist = [logged |-> <<>>, sink |-> <<>>, got |-> None]

\* A caller logs the next event.
CallLog ==
    /\ pc = "logger"
    /\ Len(hist.logged) < MaxEvents
    /\ LET event == EventNo(Len(hist.logged))
           r == Log(auditLogger[1], event, now)
       IN  /\ auditLogger' = Some(r.l)
           /\ hist' = [logged |-> Append(hist.logged,
                                         [event EXCEPT !.Timestamp = Some(now)]),
                       sink   |-> hist.sink \o r.written,
                       got    |-> None]
    /\ UNCHANGED <<config, tools, rateLimiter, now, pc, line, last,
                   sseClients, wsClients, threads>>

\* A caller asks for the count most recent events.
CallGetRecentEvents(count) ==
    /\ pc = "logger"
    /\ LET g == GetRecentEvents(auditLogger[1], count)
       IN  hist' = [hist EXCEPT !.got = Some([count |-> count, panic |-> g.panic,
                                              events |-> g.events])]
    /\ UNCHANGED <<config, tools, rateLimiter, auditLogger, now, pc, line, last,
                   sseClients, wsClients, threads>>

NextLogger ==
    \/ CallLog
    \/ \E count \in -1..MaxEvents : CallGetRecentEvents(count)
    \/ Tick

SpecLogger == InitLogger /\ [][NextLogger]_vars

\* ------------------------------------------------------------------------
\* The audit logger with a sink that may fail, under callers and dispatch
\* ------------------------------------------------------------------------
\* The tools called in this specification.
SinkTools == {"get_record", "put_record", "drop_index", "no_such_tool"}

\* hist counts the calls of Log (calls), keeps the diagnostics printed
\* (printed) and the event a caller gave to the last call of Log, stamped
\* (given), none after a dispatch.
InitSink ==
    /\ \E cfg \in AllConfigs, size \in LoggerBuffers, writer \in {"ok", "failing"} :
          LET c == [cfg EXCEPT !.BufferSize = size]
              s == NewServer(c)
          IN  /\ cfg.Transport = "stdio" /\ cfg.SinkOpens /\ cfg.RateLimitEnabled
              /\ cfg.Role = "admin"
              /\ config = c
              /\ tools = s.tools
              /\ rateLimiter = s.rateLimiter
              /\ auditLogger = Some([s.auditLogger[1] EXCEPT !.writer = writer])
    /\ now = 0
    /\ pc = "sink"
    /\ line = None
    /\ last = Idle
    /\ sseClients = NoClients
    /\ wsClients = NoClients
    /\ threads = NoThreads
    /\ hist = [calls |-> 0, printed |-> <<>>, given |-> None]

\* A caller logs an event with the details given.
SinkLog(details) ==
    /\ pc = "sink"
    /\ hist.calls < MaxEvents
    /\ LET event == WithDetails(EventNo(hist.calls), details)
           r == Log(auditLogger[1], event, now)
       IN  /\ auditLogger' = Some(r.l)
           /\ hist' = [calls |-> hist.calls + 1, printed |-> hist.printed \o r.printed,
                       given |-> Some(Stamped(event, now))]
    /\ UNCHANGED <<config, tools, rateLimiter, now, pc, line, last,
                   sseClients, wsClients, threads>>

\* The server handles one tools/call message.
SinkToolsCall(name, outcome) ==
    /\ pc = "sink"
    /\ hist.calls < MaxEvents
    /\ LET raw == Object("2.0", IdField(1), "tools/call", CallParams(name))
           h == handleMessage(Server, raw, outcome)
           frames == IF h.resp # None
                     THEN <<<<"stdout", Marshal(h.resp[1])>>>> ELSE <<>>
       IN  /\ rateLimiter' = h.rl
           /\ auditLogger' = h.logger
           /\ last' = Done("stdio", raw, h, frames, 0, Server)
    /\ hist' = [hist EXCEPT !.calls = @ + 1, !.given = None]
    /\ UNCHANGED <<config, tools, now, line, pc, sseClients, wsClients, threads>>

NextSink ==
    \/ \E details \in {"plain", "channel"} : SinkLog(details)
    \/ \E name \in SinkTools, outcome \in Outcomes : SinkToolsCall(name, outcome)

SpecSink == InitSink /\ [][NextSink]_vars

\* ------------------------------------------------------------------------
\* Log step by step: callers of one logger that run at the same time
\* ------------------------------------------------------------------------
\* Each caller logs its own event once.  A caller is at "idle" before its
\* call, "enter" at the test of enabled, "lock" before l.mu.Lock(),
\* "marshal", "data", "newline" and "append" inside the lock and "done"
\* after the deferred Unlock.
LogHolds == {"marshal", "data", "newline", "append"}

\* The mutex of the logger is held by the caller that is inside the lock.
LogLocked == \E h \in DOMAIN threads : threads[h].at \in LogHolds

\* The bytes of a record as they reach the sink: the serialized event,
\* then the newline that ends the record.
Fragment(event, part) == [event |-> event, part |-> part]

\* hist is the sink: the fragments written, in the order they arrived.
InitLog ==
    /\ \E cfg \in [Enabled : BOOLEAN, SinkOpens : {TRUE}, BufferSize : LoggerBuffers] :
          /\ auditLogger = NewLogger(cfg)
          /\ config = cfg
    /\ tools = {}
    /\ rateLimiter = NewRateLimiter([Enabled |-> FALSE, BurstSize |-> 1], 0)
    /\ now = 0
    /\ pc = "log"
    /\ line = None
    /\ last = Idle
    /\ sseClients = NoClients
    /\ wsClients = NoClients
    /\ threads = [h \in Callers |-> Caller("idle", FALSE)]
    /\ hist = <<>>

LogMoves(h, from, to) ==
    /\ pc = "log"
    /\ threads[h].at = from
    /\ threads' = [threads EXCEPT ![h] = Caller(to, FALSE)]

\* The event of a caller, stamped: no time passes between the calls.
LogEvent(h) == Stamped(EventNo(h), 0)

\* A caller calls Log.
LogCall(h) ==
    /\ LogMoves(h, "idle", "enter")
    /\ UNCHANGED <<config, tools, rateLimiter, auditLogger, now, pc, line, last,
                   sseClients, wsClients, hist>>

\* Log: a disabled logger returns without the lock; otherwise the event
\* is stamped.
LogEnter(h) ==
    /\ IF auditLogger[1].enabled
       THEN LogMoves(h, "enter", "lock")
       ELSE LogMoves(h, "enter", "done")
    /\ UNCHANGED <<config, tools, rateLimiter, auditLogger, now, pc, line, last,
                   sseClients, wsClients, hist>>

\* Mutant of LogLock: the lock is taken although another caller holds it.
LogLock_NoExclusion(h) ==
    /\ LogMoves(h, "lock", "marshal")
    /\ UNCHANGED <<config, tools, rateLimiter, auditLogger, now, pc, line, last,
                   sseClients, wsClients, hist>>

\* Log: l.mu.Lock() returns when no caller holds the mutex.
LogLock(h) ==
    /\ ~LogLocked
    /\ LogMoves(h, "lock", "marshal")
    /\ UNCHANGED <<config, tools, rateLimiter, auditLogger, now, pc, line, last,
                   sseClients, wsClients, hist>>

\* Log: json.Marshal(event); an event that does not marshal ends the call.
LogMarshal(h) ==
    /\ IF Marshals(LogEvent(h))
       THEN LogMoves(h, "marshal", "data")
       ELSE LogMoves(h, "marshal", "done")
    /\ UNCHANGED <<config, tools, rateLimiter, auditLogger, now, pc, line, last,
                   sseClients, wsClients, hist>>

\* Log: the Write of the record, the serialized event first.
LogWriteData(h) ==
    /\ LogMoves(h, "data", "newline")
    /\ hist' = Append(hist, Fragment(LogEvent(h), "data"))
    /\ UNCHANGED <<config, tools, rateLimiter, auditLogger, now, pc, line, last,
                   sseClients, wsClients>>

\* Log: the Write of the record, the newline last.
LogWriteNewline(h) ==
    /\ LogMoves(h, "newline", "append")
    /\ hist' = Append(hist, Fragment(LogEvent(h), "newline"))
    /\ UNCHANGED <<config, tools, rateLimiter, auditLogger, now, pc, line, last,
                   sseClients, wsClients>>

\* Log: the append to the ring, its trim, and the deferred Unlock.
LogAppend(h) ==
    /\ LogMoves(h, "append", "done")
    /\ LET l == auditLogger[1]
           grown == Append(l.buffer, LogEvent(h))
       IN  auditLogger' = Some([l EXCEPT !.buffer = IF Len(grown) >= l.bufSize
                                                   THEN Tail(grown) ELSE grown])
    /\ UNCHANGED <<config, tools, rateLimiter, now, pc, line, last,
                   sseClients, wsClients, hist>>

NextLog ==
    \E h \in Callers :
        \/ LogCall(h)
        \/ LogEnter(h)
        \/ LogLock(h)
        \/ LogMarshal(h)
        \/ LogWriteData(h)
        \/ LogWriteNewline(h)
        \/ LogAppend(h)

SpecLog == InitLog /\ [][NextLog]_vars

\* ------------------------------------------------------------------------
\* The configuration: Config.Validate, then Server.Run on what it accepted
\* ------------------------------------------------------------------------
\* A text is the sequence of its characters.  The letters of the model and
\* their folding to lower case.
UpperCase == <<"S", "T", "D", "I", "O", "E", "W", "B", "C", "K">>
LowerCase == <<"s", "t", "d", "i", "o", "e", "w", "b", "c", "k">>

Fold(ch) ==
    IF \E i \in 1..Len(UpperCase) : UpperCase[i] = ch
    THEN LowerCase[CHOOSE i \in 1..Len(UpperCase) : UpperCase[i] = ch]
    ELSE ch

\* strings.EqualFold: the texts are equal when the case of their letters
\* is not looked at.
EqualFold(a, b) ==
    /\ Len(a) = Len(b)
    /\ \A i \in 1..Len(a) : Fold(a[i]) = Fold(b[i])

Stdio == <<"s", "t", "d", "i", "o">>
Sse == <<"s", "s", "e">>
Websocket == <<"w", "e", "b", "s", "o", "c", "k", "e", "t">>

validTransports == <<Stdio, Sse, Websocket>>

\* Config.Validate: the error, none when the configuration is accepted,
\* and the configuration with its defaults filled in.
ConfigValidate(c) ==
    IF c.Hosts = <<>>
    THEN [err |-> Some(<<"at least one host must be specified">>), config |-> c]
    ELSE IF \E i \in 1..Len(c.Hosts) : c.Hosts[i].Host = ""
    THEN [err |-> Some(<<"host address is required">>), config |-> c]
    ELSE IF \E i \in 1..Len(c.Hosts) : c.Hosts[i].Port <= 0 \/ c.Hosts[i].Port > 65535
    THEN [err |-> Some(<<"invalid port">>), config |-> c]
    ELSE IF c.Role \notin {"read-only", "read-write", "admin", ""}
    THEN [err |-> Some(<<"invalid role: ", c.Role>>), config |-> c]
    ELSE LET r == IF c.Role = "" THEN [c EXCEPT !.Role = "read-only"] ELSE c
         IN  IF ~\E i \in 1..Len(validTransports) :
                    EqualFold(c.Transport, validTransports[i])
             THEN [err |-> Some(<<"invalid transport: ", c.Transport>>), config |-> r]
             ELSE [err |-> None,
                   config |-> [r EXCEPT !.TimeoutMs = IF @ <= 0 THEN 1000 ELSE @,
                                        !.MaxBatchSize = IF @ <= 0 THEN 5000 ELSE @]]

\* Mutant of RunTransport: the transport is compared without its case.
RunTransport_FoldsCase(c) ==
    IF EqualFold(c.Transport, Stdio) THEN [runs |-> "runStdio", err |-> None]
    ELSE IF EqualFold(c.Transport, Sse) THEN [runs |-> "runSSE", err |-> None]
    ELSE IF EqualFold(c.Transport, Websocket) THEN [runs |-> "runWebSocket", err |-> None]
    ELSE [runs |-> "", err |-> Some(<<"unsupported transport: ", c.Transport>>)]

\* Server.Run, the switch on the transport: the transport that runs, here
\* until it ends without an error, or the error of the default branch.
RunTransport(c) ==
    IF c.Transport = Stdio THEN [runs |-> "runStdio", err |-> None]
    ELSE IF c.Transport = Sse THEN [runs |-> "runSSE", err |-> None]
    ELSE IF c.Transport = Websocket THEN [runs |-> "runWebSocket", err |-> None]
    ELSE [runs |-> "", err |-> Some(<<"unsupported transport: ", c.Transport>>)]

\* The transports, hosts and sizes of the configurations of the model.
TransportTexts ==
    {Stdio, Sse, Websocket, <<"S", "S", "E">>, <<"S", "t", "d", "i", "o">>,
     <<"h", "t", "t", "p">>, <<>>}

HostLists ==
    {<<>>, <<[Host |-> "db", Port |-> 3000]>>, <<[Host |-> "", Port |-> 3000]>>,
     <<[Host |-> "db", Port |-> 0]>>, <<[Host |-> "db", Port |-> 65536]>>,
     <<[Host |-> "db", Port |-> 65535], [Host |-> "db2", Port |-> 1]>>}

FileConfigs ==
    [Hosts : HostLists, Role : Roles \cup {"", "root"}, Transport : TransportTexts,
     TimeoutMs : {0, 1000}, MaxBatchSize : {0, 5000}]

\* The configuration is what the file held; hist is the last call, the
\* configuration it was given and what it returned.
InitConfig ==
    /\ config \in FileConfigs
    /\ tools = {}
    /\ rateLimiter = NewRateLimiter([Enabled |-> FALSE, BurstSize |-> 1], 0)
    /\ auditLogger = None
    /\ now = 0
    /\ pc = "validate"
    /\ line = None
    /\ last = Idle
    /\ sseClients = NoClients
    /\ wsClients = NoClients
    /\ threads = NoThreads
    /\ hist = Applied("none", None, None)

\* Load: the configuration is validated, and refused with the error.
CallValidate ==
    /\ pc = "validate"
    /\ LET v == ConfigValidate(config)
       IN  /\ config' = v.config
           /\ pc' = IF v.err = None THEN "run" ELSE "refused"
           /\ hist' = Applied("Validate", config, v.err)
    /\ UNCHANGED <<tools, rateLimiter, auditLogger, now, line, last,
                   sseClients, wsClients, threads>>

\* Server.Run on the configuration that was accepted.
CallRun ==
    /\ pc = "run"
    /\ pc' = "ran"
    /\ hist' = Applied("Run", config, RunTransport(config))
    /\ UNCHANGED <<config, tools, rateLimiter, auditLogger, now, line, last,
                   sseClients, wsClients, threads>>

NextConfig ==
    \/ CallValidate
    \/ CallRun

SpecConfig == InitConfig /\ [][NextConfig]_vars

\* ------------------------------------------------------------------------
\* Properties of dispatch
\* ------------------------------------------------------------------------
\* The iteration has handled a message that decoded as a request.
HandledRequest == last.op # "idle" /\ last.req # None

ErrorCode(resp) == IF resp.Error = None THEN 0 ELSE resp.Error[1].code

\* The value of a field in marshalled bytes, none when the field is omitted.
Field(bytes, key) ==
    IF \E i \in 1..Len(bytes) : bytes[i][1] = key
    THEN Some(bytes[CHOOSE i \in 1..Len(bytes) : bytes[i][1] = key][2])
    ELSE None

\* C1: a message that decodes as a request with an id is answered with
\* exactly one response, result or error, that carries the same id, and on
\* the unary transport exactly one frame with that id is written.
C1_ResponseEchoesId ==
    (HandledRequest /\ last.req[1].ID # None) =>
        /\ last.resp # None
        /\ last.resp[1].ID = last.req[1].ID
        /\ last.op = "stdio" =>
              /\ Len(last.frames) = 1
              /\ last.frames[1][1] = "stdout"
              /\ Field(last.frames[1][2], "id") = last.req[1].ID

C1_Witness ==
    /\ HandledRequest
    /\ last.req[1].ID = Some(2)
    /\ last.req[1].Method = "bogus/method"
    /\ last.resp # None
    /\ last.resp[1].ID = Some(2)
    /\ ErrorCode(last.resp[1]) = MethodNotFound

\* C2: a message that decodes as a request without an id (a notification)
\* gets no response: handleMessage yields none and the transport emits no
\* frame for it.
C2_NotificationNoResponse ==
    (HandledRequest /\ last.req[1].ID = None) =>
        /\ last.resp = None
        /\ last.frames = <<>>

\* C3: every response carries exactly one of result and error.
C3_ExactlyOneOfResultAndError ==
    (last.op # "idle" /\ last.resp # None) =>
        ((last.resp[1].Result # None) # (last.resp[1].Error # None))

DispatchTable == {"initialize", "initialized", "shutdown", "tools/list",
                  "tools/call", "resources/list", "resources/read",
                  "prompts/list"}

\* The iteration made no call downstream, audited nothing and left the
\* limiter as it was.
NoSideEffect ==
    /\ last.logged = <<>>
    /\ last.calls = <<>>
    /\ last.runs = <<>>
    /\ last.reads = <<>>
    /\ last.allows = 0
    /\ rateLimiter = last.before

\* C4: a request whose version is absent or not "2.0" is answered with
\* InvalidRequest whatever its method, and nothing is routed; MethodNotFound
\* answers exactly the requests with a valid version and a method outside
\* the dispatch table.
C4_VersionBeforeMethod ==
    HandledRequest =>
        /\ last.req[1].JSONRPC # "2.0" =>
              /\ last.resp # None
              /\ ErrorCode(last.resp[1]) = InvalidRequest
              /\ last.resp[1].Result = None
              /\ ~last.routed
              /\ NoSideEffect
        /\ (last.resp # None /\ ErrorCode(last.resp[1]) = MethodNotFound)
              <=> (last.req[1].JSONRPC = "2.0" /\ last.req[1].Method \notin DispatchTable)

C4_Witness ==
    /\ HandledRequest
    /\ last.raw.jsonrpc = "1.0"
    /\ last.req[1].Method = "tools/call"
    /\ last.req[1].Params.name = "put_record"
    /\ ErrorCode(last.resp[1]) = InvalidRequest

\* The text is no well-formed envelope: no JSON, no JSON object, or an
\* object whose version field is no string.
NotWellFormed(raw) ==
    \/ raw.kind \in {"garbage", "array"}
    \/ raw.kind = "object" /\ raw.jsonrpc = "#number"

MutatingTools == {"put_record", "delete_record", "batch_write", "operate"}

AdminTools == {"create_index", "drop_index", "truncate_set", "register_udf",
               "remove_udf"}

\* The iteration dispatched a tools/call whose params decoded.
ToolsCall ==
    /\ HandledRequest
    /\ last.req[1].JSONRPC = "2.0"
    /\ last.req[1].Method = "tools/call"
    /\ last.req[1].Params.shape = "object"

ToolName == last.req[1].Params.name

\* The tokens the limiter held when the message arrived, the time since its
\* last refill counted in.
TokensAtCall ==
    LET tokens == last.before.tokens + (last.at - last.before.lastRefill)
    IN  IF tokens > last.before.maxTokens THEN last.before.maxTokens ELSE tokens

\* A tools/call for a mutating tool arrived at a limiter with less than
\* one token.
Denied == ToolsCall /\ ToolName \in MutatingTools /\ TokensAtCall < TokenUnit

RateLimitedResult(resp) ==
    /\ resp.Error = None
    /\ resp.Result # None
    /\ resp.Result[1].type = "ToolsCallResult"
    /\ resp.Result[1].isError
    /\ resp.Result[1].content =
          <<[type |-> "text",
             text |-> <<"Error: rate limit exceeded, please try again later">>]>>

\* C6: a tools/call for a mutating tool that finds less than one token is
\* short-circuited: no tool is called, and the response is a result, no
\* protocol error, with the error flag and the rate-limit message.
C6_RateLimitShortCircuits ==
    Denied =>
        /\ last.calls = <<>>
        /\ last.runs = <<>>
        /\ last.resp # None
        /\ RateLimitedResult(last.resp[1])

C6_Witness ==
    /\ Denied
    /\ ToolName = "batch_write"
    /\ "batch_write" \in tools
    /\ last.runs = <<>>
    /\ last.resp[1].Result[1].isError

AuditingEnabled == auditLogger # None /\ auditLogger[1].enabled

OneWarning ==
    /\ Len(last.logged) = 1
    /\ last.logged[1].Level = "WARNING"
    /\ last.logged[1].Success = FALSE

\* C7 as claimed: every denied tools/call records exactly one audit event,
\* a WARNING with success false.
C7_DeniedCallAuditedOnce == Denied => OneWarning

\* C7 as amended: with auditing enabled, every denied tools/call records
\* exactly one audit event, a WARNING with success false, and no second one.
C7_DeniedCallAuditedOnceWhenEnabled == (Denied /\ AuditingEnabled) => OneWarning

C7_Witness ==
    /\ Denied
    /\ AuditingEnabled
    /\ Len(last.logged) = 1
    /\ last.logged[1].Level = "WARNING"
    /\ last.logged[1].Operation = ToolName

\* The downstream operation of the iteration failed.
DownstreamFailed == last.op # "idle" /\ last.downErr # None

FailedCallResult(resp, err) ==
    /\ resp.Error = None
    /\ resp.Result # None
    /\ resp.Result[1].type = "ToolsCallResult"
    /\ resp.Result[1].isError
    /\ resp.Result[1].content = <<[type |-> "text", text |-> <<"Error: ">> \o err]>>

\* C8 as claimed: a failed downstream operation, tool call or resource read,
\* is answered with a result marked as failed that carries the downstream
\* message, never with a protocol error.
C8_DownstreamFailureIsResult ==
    DownstreamFailed => FailedCallResult(last.resp[1], last.downErr[1])

\* C8 as amended: a failed tool call is answered with a result marked as
\* failed that carries the downstream message, never with a protocol error;
\* a failed resource read is answered with the protocol error InternalError
\* that carries the downstream message as its data.
C8_ToolFailureIsResult ==
    DownstreamFailed =>
        /\ last.req[1].Method \in {"tools/call", "resources/read"}
        /\ last.req[1].Method = "tools/call" =>
              FailedCallResult(last.resp[1], last.downErr[1])
        /\ last.req[1].Method = "resources/read" =>
              /\ last.resp[1].Result = None
              /\ ErrorCode(last.resp[1]) = InternalError
              /\ last.resp[1].Error[1].data = last.downErr[1]

C8_Witness ==
    /\ DownstreamFailed
    /\ last.req[1].Method = "tools/call"
    /\ last.runs = <<"get_record">>
    /\ last.resp[1].Result # None
    /\ last.resp[1].Result[1].isError

ClaimedCategory(name) ==
    IF name \in MutatingTools THEN "WRITE"
    ELSE IF name \in AdminTools THEN "ADMIN"
    ELSE "READ"

\* C9: with auditing enabled, a tools/call that reaches the tool registry
\* records exactly one audit event, whose success flag is the outcome of
\* the call and whose category is WRITE, ADMIN or READ by the tool name.
C9_CallAuditedOnce ==
    (ToolsCall /\ AuditingEnabled /\ last.calls # <<>>) =>
        /\ last.calls = <<ToolName>>
        /\ Len(last.logged) = 1
        /\ last.logged[1].Operation = ToolName
        /\ last.logged[1].Success = (last.downErr = None)
        /\ last.logged[1].Category = ClaimedCategory(ToolName)

C9_Witness ==
    /\ ToolsCall
    /\ AuditingEnabled
    /\ last.runs = <<"remove_udf">>
    /\ last.downErr # None
    /\ Len(last.logged) = 1
    /\ last.logged[1].Category = "ADMIN"
    /\ ~last.logged[1].Success

Throttled ==
    /\ last.resp # None
    /\ last.resp[1].Result # None
    /\ last.resp[1].Result[1].type = "ToolsCallResult"
    /\ last.resp[1].Result[1].content =
          <<[type |-> "text",
             text |-> <<"Error: rate limit exceeded, please try again later">>]>>

\* C10: the limiter is consulted exactly by the tools/calls for put_record,
\* delete_record, batch_write and operate, once each, and an admitted one
\* takes one token from an enabled limiter; every other message leaves the
\* limiter as it was and is never throttled.
C10_OnlyMutatingCallsMeetLimiter ==
    last.op # "idle" =>
        /\ last.allows \in {0, 1}
        /\ last.allows = 1 <=> (ToolsCall /\ ToolName \in MutatingTools)
        /\ last.allows = 0 => (rateLimiter = last.before /\ ~Throttled)
        /\ (last.allows = 1 /\ ~Throttled /\ last.before.enabled) =>
              /\ rateLimiter.tokens = TokensAtCall - TokenUnit
              /\ rateLimiter.tokens >= 0

C10_Witness ==
    /\ ToolsCall
    /\ ToolName = "operate"
    /\ last.before.enabled
    /\ last.allows = 1
    /\ last.calls = <<"operate">>
    /\ rateLimiter.tokens = last.before.tokens - TokenUnit

\* ------------------------------------------------------------------------
\* Properties of the rate limiter
\* ------------------------------------------------------------------------
\* The capacity in whole tokens.
Capacity == rateLimiter.maxTokens \div TokenUnit

\* The first i calls are Allow() calls made at the time of creation.
OnlyAllowsAtStart(i) ==
    \A k \in 1..i : hist[k].op = "Allow" /\ hist[k].at = 0

\* C11: on an enabled limiter of capacity C, of the Allow() calls made with
\* no time elapsing since creation exactly the first C are admitted: the
\* i-th is admitted if and only if i <= C.
C11_BurstThenRefusal ==
    rateLimiter.enabled =>
        \A i \in 1..Len(hist) :
            OnlyAllowsAtStart(i) => (hist[i].ok <=> i <= Capacity)

C11_Witness ==
    /\ rateLimiter.enabled
    /\ Capacity = 2
    /\ Len(hist) = 3
    /\ OnlyAllowsAtStart(3)
    /\ hist[1].ok /\ hist[2].ok /\ ~hist[3].ok

\* C12: the token count of an enabled limiter is never below zero and
\* never above the capacity, whatever calls were made and whatever time
\* has passed.
C12_TokensWithinCapacity ==
    rateLimiter.enabled =>
        /\ 0 <= rateLimiter.tokens
        /\ rateLimiter.tokens <= rateLimiter.maxTokens

\* The k-th call is an admitted Allow(), made directly or by Wait().
Admitted(k) == hist[k].op \in {"Allow", "Wait"} /\ hist[k].ok

\* The k-th call took tokens out of the bucket.
Consumed(k) == Admitted(k) \/ (hist[k].op = "AllowN" /\ hist[k].ok /\ hist[k].n > 0)

\* C13: on an enabled limiter the Allow() calls admitted between any two
\* calls are at most the capacity plus the refill of the time between
\* them, and an Allow() made a token's worth of time or more after a
\* refused one, with nothing consumed in between, is admitted.
C13_TokenBucketBound ==
    rateLimiter.enabled =>
        /\ \A i, j \in 1..Len(hist) :
              i <= j =>
                Cardinality({k \in i..j : Admitted(k)}) * TokenUnit
                    <= rateLimiter.maxTokens + (hist[j].at - hist[i].at)
        /\ \A i, j \in 1..Len(hist) :
              ( /\ i < j
                /\ hist[i].op = "Allow" /\ ~hist[i].ok
                /\ hist[j].op = "Allow"
                /\ hist[j].at - hist[i].at >= TokenUnit
                /\ \A k \in (i + 1)..(j - 1) : ~Consumed(k) )
              => hist[j].ok

\* C14: a disabled limiter admits every Allow(), AllowN(n) and Wait() and
\* its token count stays what it was at creation, the capacity.
C14_DisabledAlwaysAdmits ==
    ~rateLimiter.enabled =>
        /\ \A k \in 1..Len(hist) :
              hist[k].op \in {"Allow", "AllowN", "Wait"} => hist[k].ok
        /\ rateLimiter.tokens = rateLimiter.maxTokens

C14_Witness ==
    /\ ~rateLimiter.enabled
    /\ Capacity = 1
    /\ Len(hist) = 3
    /\ hist[1].op = "Allow" /\ hist[1].ok
    /\ hist[2].op = "AllowN" /\ hist[2].n = 2 /\ hist[2].ok
    /\ hist[3].op = "Wait" /\ hist[3].ok

\* ------------------------------------------------------------------------
\* Properties of the audit logger
\* ------------------------------------------------------------------------
\* The last n of the events logged so far, oldest first.
LastLogged(n) ==
    SubSeq(hist.logged, Len(hist.logged) - n + 1, Len(hist.logged))

Min(a, b) == IF a < b THEN a ELSE b

\* C15: on an enabled logger of ring capacity N, GetRecentEvents(N) after
\* more than N logged events yields exactly the last N of them in logging
\* order, and GetRecentEvents(n) yields the min(n, retained) most recent
\* events, oldest first.
C15_RecentEventsAreLastN ==
    (auditLogger[1].enabled /\ hist.got # None /\ hist.got[1].count >= 0) =>
        LET N == auditLogger[1].bufSize
            n == hist.got[1].count
        IN  /\ (n = N /\ Len(hist.logged) > N) =>
                  hist.got[1].events = LastLogged(N)
            /\ hist.got[1].events
                  = LastLogged(Min(n, Len(auditLogger[1].buffer)))

\* C16: on a disabled logger nothing reaches the sink, however many events
\* are logged, and GetRecentEvents yields the empty sequence.
C16_DisabledLogIsNoOp ==
    ~auditLogger[1].enabled =>
        /\ hist.sink = <<>>
        /\ auditLogger[1].buffer = <<>>
        /\ hist.got # None => hist.got[1].events = <<>>

C16_Witness ==
    /\ ~auditLogger[1].enabled
    /\ Len(hist.logged) = 3
    /\ hist.got # None
    /\ hist.got[1].count = 2
    /\ hist.got[1].events = <<>>
    /\ hist.sink = <<>>

\* ------------------------------------------------------------------------
\* Properties of the session queues
\* ------------------------------------------------------------------------
\* The frames of the last handler on a channel.
FramesOn(channel) ==
    {i \in 1..Len(last.frames) : last.frames[i][1] = channel}

\* The last handler was an SSE message call that found the queue of its
\* session at capacity and had a response for it.
PostOnFullQueue ==
    /\ last.op = "sse-post"
    /\ last.session \in DOMAIN sseClients
    /\ last.resp # None
    /\ Len(last.queue) = QueueCap

\* C17: an SSE message call that finds the queue of its session at
\* capacity discards its response: the queue is what it was, nothing is
\* queued, one warning is logged and the call is answered with 202.
C17_FullQueueDropsNewest ==
    PostOnFullQueue =>
        /\ sseClients[last.session].messages = last.queue
        /\ FramesOn("queue") = {}
        /\ last.log = <<BufferFull(last.session)>>
        /\ last.status = 202

C17_Witness ==
    /\ PostOnFullQueue
    /\ last.req # None
    /\ last.req[1].Method = "prompts/list"
    /\ last.log # <<>>
    /\ last.status = 202
    /\ Len(sseClients[last.session].messages) = QueueCap

\* The last handler was a polling send that found the queue of its session
\* at capacity.
SendOnFullQueue ==
    /\ last.op = "ws-send"
    /\ last.session \in DOMAIN wsClients
    /\ Len(last.queue) = QueueCap

Blocked(h) ==
    /\ threads[h].pc = "push"
    /\ Len(wsClients[threads[h].session].messages) >= QueueCap

\* C19: no send handler in flight ever waits on the queue of its session:
\* each can take its next step whatever the other handlers and the
\* receivers have done.
C19_SendersNeverBlock ==
    \A h \in DOMAIN threads : ~Blocked(h)

\* The place of a message among the messages that entered the queue.
Place(sent, msg) == CHOOSE i \in 1..Len(sent) : sent[i] = msg

\* C20: on every session the messages the stream wrote, or the polls
\* returned, are messages that entered the queue of that session, each at
\* most once and in the order in which they entered.
C20_PerSessionFifo ==
    \A id \in DOMAIN hist :
        LET sent == hist[id].sent
            got == hist[id].got
        IN  /\ \A i \in 1..Len(got) : \E k \in 1..Len(sent) : sent[k] = got[i]
            /\ \A i, j \in 1..Len(got) :
                  i < j => Place(sent, got[i]) < Place(sent, got[j])

C20_Witness ==
    \E id \in DOMAIN hist :
        /\ config.Transport = "websocket"
        /\ Len(hist[id].sent) = QueueCap + 1
        /\ Len(hist[id].got) = 2
        /\ hist[id].got[1] = hist[id].sent[2]
        /\ hist[id].got[2] = hist[id].sent[3]

\* ------------------------------------------------------------------------
\* Properties of the session registries
\* ------------------------------------------------------------------------
\* C21: the registry of the push-stream adapter holds no session whose
\* stream handler has returned, whatever made the handler return.
C21_NoSessionOutlivesHandler ==
    Serving("sse") => \A id \in DOMAIN sseClients : sseClients[id].streaming

\* ------------------------------------------------------------------------
\* Properties of the polling adapter
\* ------------------------------------------------------------------------
\* A handler waits only on an empty channel.
ParkedOnEmpty ==
    \A h \in DOMAIN threads :
        (threads[h].pc = "wait" /\ threads[h].session \in DOMAIN wsClients)
            => wsClients[threads[h].session].messages = <<>>

\* The select of a receive takes the oldest message of the channel it
\* finds, and leaves the rest.
SelectTakesOldest ==
    \A s \in {hist.step[i] : i \in 1..Len(hist.step)} :
        s.op = "select" =>
            LET thread == threads[s.handler]
                queue == wsClients[s.session].messages
            IN  IF s.found # <<>>
                THEN thread.msg = Some(Head(s.found)) /\ queue = Tail(s.found)
                ELSE thread.pc = "wait" /\ queue = <<>>

\* A receive handler writes the message its select received within the
\* timeout, or the no-op payload when the timeout passed without one.
WritesMessageOrNoOp ==
    \A s \in {hist.step[i] : i \in 1..Len(hist.step)} :
        (s.op = "return" /\ s.cause # "cancel") =>
            IF s.msg # None
            THEN s.wrote = s.msg /\ s.took < s.began + ReceiveTimeout
            ELSE s.wrote = Some(NoMessages) /\ s.took = s.began + ReceiveTimeout

\* What a receive handler wrote is what the client is replied.
ReplyIsWhatWasWritten ==
    \A s \in {hist.step[i] : i \in 1..Len(hist.step)} :
        (s.op = "return" /\ s.cause # "cancel") => s.reply = s.wrote

\* Every receive handler in flight returns.
ReceiveReturns ==
    \A h \in Pollers : (h \in DOMAIN threads) ~> (h \notin DOMAIN threads)

\* C22: a polling receive on a live session replies with the oldest queued
\* message, removing it from the queue, when there is one or one arrives
\* within the timeout, and otherwise with the no-op payload, the queue
\* left as it was.
C22_ReceiveOldestOrNoOp ==
    ParkedOnEmpty /\ SelectTakesOldest /\ WritesMessageOrNoOp /\ ReplyIsWhatWasWritten

\* The age of a registered client: the time since its last connect, send
\* or receive.
AgeOf(id) == now - hist.active[id]

\* A pass of the sweep removes the clients older than the threshold, and
\* no other.
SweepRemovesIdle ==
    \A s \in {hist.step[i] : i \in 1..Len(hist.step)} :
        s.op = "sweep" =>
            /\ s.removed = {id \in DOMAIN s.before : s.at - s.before[id] > IdleThreshold}
            /\ DOMAIN wsClients = DOMAIN s.before \ s.removed

\* Sends and receives are rejected as not found for the ids that are not
\* registered, and for no other.
UnregisteredNotFound ==
    \A s \in {hist.step[i] : i \in 1..Len(hist.step)} :
        (s.op \in {"send", "receive", "select"} /\ s.session # "") =>
            (s.status = 404 <=> s.session \notin DOMAIN wsClients)

\* C23: each pass of the sweep removes exactly the sessions whose last
\* connect, send or receive is older than the idle threshold; a session
\* older than the threshold is removed in the end; sends and receives
\* with the id of a removed session are rejected as not found.
C23_SweepRemovesExactlyIdle ==
    /\ [](SweepRemovesIdle /\ UnregisteredNotFound)
    /\ [](DOMAIN hist.active = DOMAIN wsClients)
    /\ \A id \in ClientIds :
          (id \in DOMAIN wsClients /\ AgeOf(id) > IdleThreshold)
              ~> (id \notin DOMAIN wsClients \/ AgeOf(id) <= IdleThreshold)

C23_Witness ==
    /\ hist.step # None
    /\ hist.step[1].op = "sweep"
    /\ hist.step[1].removed # {}
    /\ hist.step[1].removed # DOMAIN hist.step[1].before

\* ------------------------------------------------------------------------
\* Properties of the loop of runStdio
\* ------------------------------------------------------------------------
\* The frames written answer lines read, in the order of the lines, one
\* frame a line at most.
WrittenInOrder ==
    /\ \A i \in 1..Len(hist.wrote) : hist.wrote[i][1] \in 1..Len(hist.lines)
    /\ \A i, j \in 1..Len(hist.wrote) : i < j => hist.wrote[i][1] < hist.wrote[j][1]

\* When the loop reads, the frame of every line read so far is written;
\* when a line has been read and not yet handled, every frame written
\* answers an earlier line.
WrittenBeforeNextRead ==
    /\ pc \in {"loop", "read"} =>
          /\ Len(hist.wrote) = Len(hist.lines)
          /\ \A i \in 1..Len(hist.wrote) : hist.wrote[i][1] = i
    /\ pc = "handle" => \A i \in 1..Len(hist.wrote) : hist.wrote[i][1] < Len(hist.lines)

\* The lines handled are the lines the input gave, in their order, and a
\* line is handled before the next is read.
HandledAreLines ==
    /\ Len(hist.handled) <= Len(hist.lines)
    /\ \A i \in 1..Len(hist.handled) : hist.handled[i] = hist.lines[i]
    /\ pc \in {"loop", "read"} => Len(hist.handled) = Len(hist.lines)

\* At the end of the stream the loop returns nil, and the bytes without a
\* newline before the end are not handled.
EndOfStreamIsClean ==
    (pc = "exit" /\ hist.end[1].err = None) =>
        /\ hist.handled = hist.lines
        /\ line = None

\* C24: the loop of the unary-stream adapter handles its lines one at a
\* time: the frames on the output answer the lines in their order, the
\* frame of a line is written before the next line is read, and at the
\* end of the stream the loop returns without error and without handling
\* unterminated bytes.
C24_OneAtATimeAndCleanEnd ==
    WrittenInOrder /\ WrittenBeforeNextRead /\ HandledAreLines /\ EndOfStreamIsClean

C24_Witness ==
    /\ pc = "exit"
    /\ Len(hist.wrote) = MaxLines
    /\ Len(hist.lines) = MaxLines
    /\ hist.end[1].tail # None
    /\ hist.end[1].err = None

\* C25: once the context is cancelled the loop of runStdio returns, also
\* when no more input arrives.
C25_CancelledLoopReturns ==
    hist.cancelled ~> (pc = "exit")

\* ------------------------------------------------------------------------
\* Properties of the start of the server
\* ------------------------------------------------------------------------
\* C26: a server whose audit sink could not be opened does not start: it
\* dispatches no request.
C26_NoDispatchAfterFailedStart ==
    ~config.SinkOpens => last.op = "idle"

\* ------------------------------------------------------------------------
\* Properties of the validator and of the tools
\* ------------------------------------------------------------------------
\* The tools whose arguments are the namespace, the set and the key of one
\* record.
RecordTools == {"get_record", "put_record", "delete_record"}

\* The validator of the server rejects the namespace, the set name or the
\* key of the arguments.
Violates(args) ==
    LET v == NewValidator(DefaultValidatorConfig)
    IN  \/ ValidateNamespace(v, args.namespace) # None
        \/ ValidateSetName(v, args.set_name) # None
        \/ ValidateKey(v, args.key) # None

Rejected(code) ==
    /\ last.resp # None
    /\ last.resp[1].Error # None
    /\ last.resp[1].Error[1].code = code

\* C27: a tools/call of a record tool whose namespace, set name or key the
\* validator rejects is answered with InvalidParams, and no tool handler
\* runs.
C27_InvalidArgumentsRejected ==
    (/\ hist.op = "tools/call"
     /\ hist.input.name \in RecordTools
     /\ hist.input.args.shape = "object"
     /\ Violates(hist.input.args))
        => Rejected(InvalidParams) /\ last.runs = <<>>

\* The text has only characters of the allowed class.
Allowed(text) == \A i \in 1..Len(text) : text[i] \in IdentifierChars

Validated == hist.op = "Validate"

\* A bin name of allowed characters passes at exactly the limit and fails
\* one character above it.
BinNameBoundary ==
    (Validated /\ Allowed(hist.input.text)) =>
        /\ Len(hist.input.text) = hist.input.v.maxBinNameLength
               => hist.output.bin_name = None
        /\ Len(hist.input.text) = hist.input.v.maxBinNameLength + 1
               => hist.output.bin_name # None

\* A name with a character outside the allowed class fails as a bin name
\* and as a namespace.
OutsideCharacterFails ==
    (Validated /\ ~Allowed(hist.input.text)) =>
        /\ hist.output.bin_name # None
        /\ hist.output.namespace # None
        /\ hist.output.set_name # None

\* The empty text fails as a namespace and passes as a set name.
EmptyNames ==
    (Validated /\ hist.input.text = <<>>) =>
        /\ hist.output.namespace # None
        /\ hist.output.set_name = None

\* A batch size passes exactly when it is one of 1..max.
BatchSizeRange ==
    Validated =>
        (hist.output.batch = None <=>
            hist.input.size \in 1..hist.input.v.maxBatchSize)

\* C28: ValidateBinName accepts a name of exactly the maximum length and
\* rejects one a character longer, names with a character outside the
\* allowed class are rejected, ValidateNamespace rejects the empty text
\* and ValidateSetName accepts it, and ValidateBatchSize accepts exactly
\* the sizes 1..max.
C28_ValidatorBoundaries ==
    BinNameBoundary /\ OutsideCharacterFails /\ EmptyNames /\ BatchSizeRange

\* The validator of the server was given a bin name of exactly its limit
\* and passed it, for a batch of exactly its limit.
C28_Witness ==
    /\ Validated
    /\ hist.input.v = NewValidator(DefaultValidatorConfig)
    /\ Allowed(hist.input.text)
    /\ Len(hist.input.text) = hist.input.v.maxBinNameLength
    /\ hist.input.size = hist.input.v.maxBatchSize
    /\ hist.output.bin_name = None
    /\ hist.output.batch = None

Range(seq) == {seq[i] : i \in 1..Len(seq)}

Listed == hist.op = "List"

ListedFor(r) == Listed /\ hist.input = r

Called == hist.op = "Call"

\* The arguments carry the confirmations the tool asks for.
Confirmed(name, args) ==
    /\ args.shape = "object"
    /\ name \in {"drop_index", "remove_udf"} => args.confirm
    /\ name = "truncate_set" => args.confirm /\ args.confirm_destructive

\* C30: drop_index and remove_udf without confirm=true, and truncate_set
\* without both confirm=true and confirm_destructive=true, return an error
\* and invoke no operation of the backing store.
C30_DestructiveNeedsConfirmation ==
    (/\ Called
     /\ hist.input.name \in {"drop_index", "remove_udf", "truncate_set"}
     /\ ~Confirmed(hist.input.name, hist.input.args))
        => hist.output.err # None /\ hist.output.ops = <<>>

\* truncate_set was called by an admin with confirm alone and was refused.
C30_Witness ==
    /\ Called
    /\ hist.input.name = "truncate_set"
    /\ hist.input.name \in tools
    /\ hist.input.args.shape = "object"
    /\ hist.input.args.confirm
    /\ ~hist.input.args.confirm_destructive
    /\ hist.output.runs = <<"truncate_set">>
    /\ hist.output.err # None
    /\ hist.output.ops = <<>>

\* ------------------------------------------------------------------------
\* Properties of batch_write
\* ------------------------------------------------------------------------
Batched == hist.op = "BatchWrite"

\* The request is one the loop takes to the store.
Attempted(req) == ~req.keyErr /\ req.Operation \in {"put", "", "delete"}

\* The indices of the requests the loop takes to the store, in order.
RECURSIVE AttemptedFrom(_, _)
AttemptedFrom(requests, i) ==
    IF i > Len(requests) THEN <<>>
    ELSE (IF Attempted(requests[i]) THEN <<i>> ELSE <<>>)
             \o AttemptedFrom(requests, i + 1)

\* A batch above the maximum is refused as a whole and nothing is written.
OversizedBatchRefused ==
    (Batched /\ Len(hist.input.requests) > hist.input.max) =>
        /\ hist.output.err # None
        /\ hist.output.results = None
        /\ hist.output.ops = <<>>

\* A batch within the maximum, under a role that may write: every request
\* with a key and a known operation goes to the store, in the order of
\* the requests, whatever happened to the requests before it, and
\* results[i] tells what happened to requests[i].
BatchWithinLimitAttemptsAll ==
    (Batched /\ Len(hist.input.requests) <= hist.input.max /\ CanWrite(config.Role)) =>
        /\ hist.output.err = None
        /\ Len(hist.output.results[1]) = Len(hist.input.requests)
        /\ [k \in 1..Len(hist.output.ops) |-> hist.output.ops[k].at]
               = AttemptedFrom(hist.input.requests, 1)
        /\ \A i \in 1..Len(hist.input.requests) :
              /\ hist.output.results[1][i].Key = hist.input.requests[i].Key
              /\ hist.output.results[1][i].Success
                     <=> (Attempted(hist.input.requests[i])
                            /\ ~hist.input.requests[i].storeErr)

\* C31: batch_write is bounded and not atomic: a batch with more
\* operations than the maximum is rejected as a whole and writes nothing;
\* within the limit every operation is attempted in request order
\* regardless of earlier failures, and results[i] reports requests[i].
C31_BatchBoundedNotAtomic ==
    OversizedBatchRefused /\ BatchWithinLimitAttemptsAll

\* A batch of exactly the maximum whose first write failed and whose last
\* write was made and succeeded.
C31_Witness ==
    /\ Batched
    /\ Len(hist.input.requests) = hist.input.max
    /\ hist.input.max > 1
    /\ hist.output.err = None
    /\ ~hist.output.results[1][1].Success
    /\ hist.input.requests[1].storeErr
    /\ hist.output.results[1][hist.input.max].Success
    /\ Len(hist.output.ops) = hist.input.max

\* ------------------------------------------------------------------------
\* Properties of the rate limiter under callers that run at the same time
\* ------------------------------------------------------------------------
\* The callers that called, and those that were answered true.
Called32 == {h \in Callers : threads[h].at # "idle"}
Granted == {h \in Callers : threads[h].ok}

\* The whole tokens the limiter was built with.
WholeTokens == rateLimiter.maxTokens \div TokenUnit

\* C32: callers of Allow() that run at the same time on an enabled limiter
\* with k whole tokens and no refill: the count never goes negative, every
\* grant took one token, and when all N callers have returned exactly
\* min(N, k) of them were answered true.
C32_ConcurrentAllowGrantsMin ==
    (pc = "allow" /\ rateLimiter.enabled) =>
        /\ rateLimiter.tokens >= 0
        /\ rateLimiter.tokens + Cardinality(Granted) * TokenUnit = rateLimiter.maxTokens
        /\ (\A h \in Called32 : threads[h].at = "done")
               => Cardinality(Granted) = Min(Cardinality(Called32), WholeTokens)

\* More callers than tokens have all returned.
C32_Witness ==
    /\ pc = "allow"
    /\ rateLimiter.enabled
    /\ \A h \in Callers : threads[h].at = "done"
    /\ WholeTokens < MaxCallers
    /\ Cardinality(Granted) = WholeTokens
    /\ rateLimiter.tokens = 0

\* ------------------------------------------------------------------------
\* Frame of AllowN and GetStats
\* ------------------------------------------------------------------------
\* The call the step records, of an enabled limiter.
Records(op) ==
    /\ pc = "limiter"
    /\ rateLimiter.enabled
    /\ Len(hist') = Len(hist) + 1
    /\ hist'[Len(hist')].op = op

\* The tokens after the refill pass of a call made now.
Available == refill(rateLimiter, now).tokens

\* C33: AllowN(n) on an enabled limiter is all or nothing: with at least n
\* tokens after the refill it returns true and removes exactly n, and
\* otherwise it returns false and leaves the count as the refill made it;
\* GetStats leaves the count as the refill made it.
C33_AllowNAllOrNothing ==
    [][(Records("AllowN") =>
           LET c == hist'[Len(hist')]
           IN  IF Available >= c.n * TokenUnit
               THEN (c.ok /\ rateLimiter'.tokens = Available - c.n * TokenUnit)
               ELSE (~c.ok /\ rateLimiter'.tokens = Available))
       /\ (Records("GetStats") => rateLimiter'.tokens = Available)]_vars

\* AllowN(2) was refused for want of tokens on an enabled limiter, after a
\* call that was admitted, and GetStats was called.
C33_Witness ==
    /\ pc = "limiter"
    /\ rateLimiter.enabled
    /\ Len(hist) = 3
    /\ hist[1].op = "Allow" /\ hist[1].ok
    /\ hist[2].op = "AllowN" /\ hist[2].n = 2 /\ ~hist[2].ok
    /\ hist[3].op = "GetStats"
    /\ rateLimiter.tokens = rateLimiter.maxTokens - TokenUnit

\* ------------------------------------------------------------------------
\* Properties of the audit logger under failures
\* ------------------------------------------------------------------------
\* The last call of Log was given an event that marshals, on an enabled
\* logger that retains events.
GaveMarshalable ==
    /\ pc = "sink"
    /\ auditLogger[1].enabled
    /\ auditLogger[1].bufSize > 1
    /\ hist.given # None
    /\ Marshals(hist.given[1])

\* The event is the newest of the ring, whether the sink took it or not.
GivenEntersRing ==
    GaveMarshalable =>
        /\ auditLogger[1].buffer # <<>>
        /\ auditLogger[1].buffer[Len(auditLogger[1].buffer)] = hist.given[1]

\* An event that does not marshal leaves a diagnostic and the ring as it
\* was; nothing else is printed.
MarshalFailureIsPrinted ==
    (pc = "sink" /\ hist.given # None /\ ~Marshals(hist.given[1])
       /\ auditLogger[1].enabled)
        => /\ hist.printed # <<>>
           /\ \A i \in 1..Len(auditLogger[1].buffer) : Marshals(auditLogger[1].buffer[i])

\* A tool call that succeeded is answered with its result, and one that
\* failed with a tool-level error, whatever the sink did with the record.
DispatchIgnoresSink ==
    (pc = "sink" /\ last.op = "stdio" /\ last.calls # <<>>) =>
        /\ last.resp # None
        /\ last.resp[1].Error = None
        /\ last.resp[1].Result[1].isError <=> last.downErr # None
        /\ auditLogger[1].writer = "failing" => last.logged = <<>>

\* C34: Log never fails its caller: when the write to the sink fails the
\* event still enters the ring, when serialization fails a diagnostic is
\* printed, and the response of the audited call is what the tool gave.
C34_LogNeverFailsCaller ==
    GivenEntersRing /\ MarshalFailureIsPrinted /\ DispatchIgnoresSink

\* On a logger whose sink fails, an event was logged after a tool call
\* that was answered with its result.
C34_Witness ==
    /\ GaveMarshalable
    /\ auditLogger[1].writer = "failing"
    /\ Len(auditLogger[1].buffer) = 2
    /\ last.op = "stdio"
    /\ last.runs = <<"put_record">>
    /\ last.downErr = None
    /\ ~last.resp[1].Result[1].isError

\* ------------------------------------------------------------------------
\* Properties of Log under callers that run at the same time
\* ------------------------------------------------------------------------
\* The places of the sink where the record of an event begins.
RecordsOf(event) ==
    {i \in 1..Len(hist) : hist[i] = Fragment(event, "data")}

\* Every record of the sink is in one piece: a serialized event is
\* followed by its own newline and by nothing else.
Uninterrupted ==
    \A i \in 1..Len(hist) :
        IF i % 2 = 1
        THEN hist[i].part = "data"
        ELSE hist[i] = Fragment(hist[i - 1].event, "newline")

\* An event is written once, and not at all before its caller wrote it.
WrittenOnce ==
    \A h \in Callers :
        Cardinality(RecordsOf(LogEvent(h))) =
            IF auditLogger[1].enabled /\ threads[h].at \in {"newline", "append", "done"}
            THEN 1 ELSE 0

\* The events of the ring are in the sink, in the order of the ring.
RingInSinkOrder ==
    LET ring == auditLogger[1].buffer
    IN  \A i, j \in 1..Len(ring) :
            i < j => \E a \in RecordsOf(ring[i]), b \in RecordsOf(ring[j]) : a < b

\* When no call is in flight the ring is the newest records of the sink.
RingIsNewestOfSink ==
    LET ring == auditLogger[1].buffer
        skip == Len(hist) \div 2 - Len(ring)
    IN  (\A h \in Callers : threads[h].at \in {"idle", "done"}) =>
            /\ skip >= 0
            /\ \A i \in 1..Len(ring) : hist[2 * (skip + i) - 1] = Fragment(ring[i], "data")

\* C35: under concurrent calls of Log every event is written to the sink
\* once, as one record that no other record interrupts, and the events of
\* the ring are in the order of their records in the sink.
C35_ConcurrentLogOneRecordEach ==
    pc = "log" =>
        Uninterrupted /\ WrittenOnce /\ RingInSinkOrder /\ RingIsNewestOfSink

\* Three callers logged at the same time, the last to call first in the
\* sink, and the ring holds the two newest records.
C35_Witness ==
    /\ pc = "log"
    /\ \A h \in Callers : threads[h].at = "done"
    /\ Len(hist) = 2 * MaxCallers
    /\ hist[1] = Fragment(LogEvent(MaxCallers), "data")
    /\ Len(auditLogger[1].buffer) = 2

\* ------------------------------------------------------------------------
\* Properties of the sessions of the HTTP transports
\* ------------------------------------------------------------------------
\* The sessions other than id are as they were, and no session came or
\* went.
OthersUntouched(id, before, after) ==
    /\ DOMAIN after = DOMAIN before
    /\ \A c \in DOMAIN before \ {id} : after[c] = before[c]

\* The step dispatched nothing: no request was decoded or routed, no tool
\* called, no token taken, no event logged and nothing queued or written.
NotDispatched(answer) ==
    /\ answer.req = None
    /\ ~answer.routed
    /\ answer.calls = <<>>
    /\ answer.frames = <<>>

\* A submit for id on a registry: only the queue of id may change, the
\* frames queued are at the tail of that queue, and an id that is not
\* registered is answered 404 with nothing dispatched.
Isolated(id, before, after, answer, limiterKept, loggerKept) ==
    /\ OthersUntouched(id, before, after)
    /\ id \in DOMAIN before =>
          /\ answer.status \notin {400, 404}
          /\ \A i \in 1..Len(answer.frames) :
                answer.frames[i][1] = "queue" =>
                    /\ after[id].messages # <<>>
                    /\ after[id].messages[Len(after[id].messages)] = answer.frames[i][2]
    /\ id \notin DOMAIN before =>
          /\ after = before
          /\ NotDispatched(answer)
          /\ limiterKept /\ loggerKept
          /\ answer.status = IF id = "" THEN 400 ELSE 404

\* C36: the response to a request submitted with a session id is queued
\* on the queue of that session and on no other, and a submit (a POST of
\* the push stream, a polling send or receive) with an id that is not
\* registered is answered not found and is not dispatched.
C36_SessionIsolation ==
    [][/\ last'.op = "sse-post" =>
             (/\ Isolated(last'.session, sseClients, sseClients', last',
                          rateLimiter' = rateLimiter, auditLogger' = auditLogger)
              /\ wsClients' = wsClients)
       /\ last'.op \in {"ws-send", "ws-receive"} =>
             (/\ Isolated(last'.session, wsClients, wsClients', last',
                          rateLimiter' = rateLimiter, auditLogger' = auditLogger)
              /\ sseClients' = sseClients)]_vars

\* Two sessions are registered, the response of a POST was queued for one
\* of them, and the queue of the other holds nothing.
C36_Witness ==
    /\ last.op = "sse-post"
    /\ last.session = "c1"
    /\ last.frames # <<>>
    /\ DOMAIN sseClients = ClientIds
    /\ sseClients["c1"].messages # <<>>
    /\ sseClients["c2"].messages = <<>>

\* ------------------------------------------------------------------------
\* Properties of the registry against its list
\* ------------------------------------------------------------------------
UnknownTool(name) == <<"unknown tool: ", name>>

\* The names that List advertises for the role of the configuration.
Advertised == Range(List(config.Role))

\* Registry.Call knows a name exactly when it is advertised, and for a
\* name it does not know no handler runs and the store is not touched.
CallAcceptsTheListed ==
    Called =>
        /\ hist.output.err # Some(UnknownTool(hist.input.name))
              <=> hist.input.name \in Advertised
        /\ hist.input.name \notin Advertised =>
              (hist.output.runs = <<>> /\ hist.output.ops = <<>>)
        /\ hist.input.name \in Advertised => hist.output.runs = <<hist.input.name>>

\* A tools/call for a name that is not advertised is answered with a
\* result that is the tool-level error, and no handler runs.
UnlistedCallIsToolError ==
    (hist.op = "tools/call" /\ hist.input.name \notin Advertised) =>
        /\ last.resp # None
        /\ last.resp[1].Error = None
        /\ last.resp[1].Result[1].isError
        /\ last.resp[1].Result[1].content[1].text
              = <<"Error: ">> \o UnknownTool(hist.input.name)
        /\ last.runs = <<>>
        /\ last.reads = <<>>

AdminOnly == NewRegistry("admin") \ NewRegistry("read-write")

\* C38: a call of a tool that is registered only under the admin role
\* (create_index, drop_index, truncate_set, list_udfs, register_udf,
\* remove_udf, execute_udf) is audited with the category ADMIN.
C38_AdminToolsAuditedAdmin ==
    (pc = "done" /\ hist.op = "tools/call" /\ config.Role = "admin"
       /\ hist.input.name \in AdminOnly)
        => /\ Len(last.logged) = 1
           /\ last.logged[1].Category = "ADMIN"

\* ------------------------------------------------------------------------
\* Properties of a tools/call whose params do not decode
\* ------------------------------------------------------------------------
\* The message handled was a tools/call of version 2.0 whose params are
\* absent or not an object.
UndecodableToolsCall ==
    /\ HandledRequest
    /\ last.req[1].JSONRPC = "2.0"
    /\ last.req[1].Method = "tools/call"
    /\ last.req[1].Params.shape # "object"

\* C39: a tools/call whose params cannot be decoded is answered with
\* InvalidParams (-32602) and nothing else happens: the limiter is not
\* asked and keeps its tokens, no tool handler runs and no audit event is
\* recorded.
C39_UndecodableCallHasNoEffect ==
    UndecodableToolsCall =>
        /\ last.resp # None
        /\ last.resp[1].Result = None
        /\ last.resp[1].Error # None
        /\ last.resp[1].Error[1].code = InvalidParams
        /\ last.allows = 0
        /\ rateLimiter = last.before
        /\ last.calls = <<>>
        /\ last.runs = <<>>
        /\ last.reads = <<>>
        /\ last.logged = <<>>

\* A tools/call with params that are not an object was answered, on a
\* server that audits and limits.
C39_Witness ==
    /\ UndecodableToolsCall
    /\ last.req[1].Params.shape = "bad"
    /\ AuditingEnabled
    /\ last.before.enabled
    /\ last.resp[1].Error[1].code = InvalidParams

\* ------------------------------------------------------------------------
\* Properties of the configuration
\* ------------------------------------------------------------------------
\* C40: every configuration that Config.Validate accepts starts one of the
\* three transports: Server.Run does not return the error "unsupported
\* transport".
C40_AcceptedTransportStarts ==
    (pc = "ran" /\ hist.op = "Run") =>
        /\ hist.output.err = None
        /\ hist.output.runs \in {"runStdio", "runSSE", "runWebSocket"}

====
